---------------------------- MODULE Spec2Model ----------------------------
(***************************************************************************)
(* A model of the core of dxf-rs: the string codecs of                     *)
(* code_pair_value.rs, the section reader and the entity folding of        *)
(* drawing.rs, and the XDATA reader of x_data.rs.                          *)
(*                                                                         *)
(* Strings are sequences of code points (naturals).  A code pair is a      *)
(* record [code, value].  The item an iterator's next() returns is a pair, *)
(* NoneItem (the end of the stream) or ErrItem (Some(Err(e))).             *)
(***************************************************************************)
EXTENDS Integers, Sequences, FiniteSets, TLC

VARIABLES
    \* string codecs (code_pair_value.rs)
    val,        \* the string handed to the codec
    escaped,    \* what the escape function returned
    unescaped,  \* what the unescape function returned on `escaped`
    stage,      \* which codec call has been made
    \* the pair stream: a reader of code pairs behind a one-item put-back buffer
    pb,         \* the put-back buffer: <<>> or <<item>>
    cur,        \* the item the latest call of next() returned
    nread,      \* how many pairs the underlying reader has produced
    at_end,     \* the underlying reader has returned None
    end_state,  \* where the caller stood when the reader first returned None
    top_eof,    \* read_sections has met 0/EOF at the top of its loop
    feed,       \* the pairs the underlying reader has left, when it reads what
                \* was written; Lazy when it reads any stream
    gstate,     \* where the pairs produced so far stand in the grammar
                \* (0/SECTION 2/<unknown name> <body> 0/ENDSEC)* 0/EOF
    \* Drawing::load (drawing.rs)
    pc,         \* the position of load / read_sections and its sub-readers
    load_result, \* what load returned: [kind, msg]
    header,     \* drawing.header, as the number of pairs Header::read applied
    header_read, \* the Header that Header::read is building, the same way; 0
                \* outside Header::read
    sections,   \* history: the names of the sections entered so far (the
                \* code keeps no such list)
    \* Drawing::read_entities (drawing.rs)
    entities,   \* drawing.entities
    ent_pb,     \* the put-back buffer of the entity stream: <<>> or <<entity>>
    raw,        \* the raw entities the EntityIter has still to hand over
    ent_end,    \* the EntityIter has returned None
    eiter,      \* the EntityIter's position: "idle", or "body" inside an entity
    yielded,    \* the raw entities the EntityIter has handed over, in order
    parent,     \* the Insert or Polyline being gathered (ins / poly)
    epc,        \* the position of read_entities
    \* XData::read_item (x_data.rs)
    xpc,        \* the position of XData::read_item and XDataItem::read_item
    xitems,     \* xdata.items
    xstack,     \* the `items` of each ControlGroup being read, innermost last
    xpend,      \* the three-real item being read: [tag, code, vals]
    xresult,    \* what XData::read_item returned: [kind, msg]
    \* XData::write (x_data.rs) and Drawing::save (drawing.rs)
    wpc,        \* the position of the writer
    out,        \* the pairs handed to write_code_pair so far
    version,    \* the AcadVersion written for (header.version)
    handles_enabled, \* header.handles_enabled
    write_handles,   \* the local write_handles of save
    wresult,    \* what the writer returned: [kind, msg]
    wh_log,     \* the write_handles value each delegated writer was given
    wi,         \* how many entities write_entities has written
    app,        \* XData.application_name
    first_items \* the items XData::write was given, kept for comparison

codecVars == <<val, escaped, unescaped, stage>>
streamVars == <<pb, cur, nread, at_end, end_state, top_eof, feed, gstate>>
loadVars == <<pc, load_result, header, header_read, sections>>
entVars == <<entities, ent_pb, raw, ent_end, eiter, yielded, parent, epc>>

xdVars == <<xpc, xitems, xstack, xpend, xresult>>
wrVars == <<wpc, out, version, handles_enabled, write_handles, wresult, wh_log,
            wi, app, first_items>>

vars == <<codecVars, streamVars, loadVars, entVars, xdVars, wrVars>>

----------------------------------------------------------------------------
(* Bounds *)

MaxStrLen == 3

\* The longest sequence of raw entities read_entities is run on.
MaxEnts == 4

\* The longest pair stream load is run on.
MaxPairs == 8

\* The longest pair stream XData::read_item is run on.
MaxXPairs == 4

\* The longest entity list save is run on.
MaxSaveEnts == 2

\* The most digits before the '.' of a number format_f64 is run on.
MaxIntDigits == 2

----------------------------------------------------------------------------
(* Values *)

Pair(code, value) == [code |-> code, value |-> value]

\* What next() returns besides Some(Ok(pair)): None, and Some(Err(e)).
NoneItem == [code |-> -1, value |-> "None"]
ErrItem == [code |-> -2, value |-> "Err"]

IsPair(item) == item.code >= 0

\* An Entity: its kind (the variant of `specific`), the Insert's has_attributes
\* flag, and the children an Insert (attributes) or a Polyline (vertices) holds.
\* id tells the entities of one stream apart.
Entity(kind, has_attributes, id) ==
    [kind |-> kind, has_attributes |-> has_attributes, id |-> id,
     attributes |-> <<>>, vertices |-> <<>>]

\* Option::None of the entity stream.
NoneEnt == Entity("None", FALSE, 0)

NoResult == [kind |-> "none", msg |-> ""]
OkResult == [kind |-> "Ok", msg |-> ""]
ErrResult(kind, msg) == [kind |-> kind, msg |-> msg]

\* The underlying reader is not bound to pairs written before.
Lazy == <<[code |-> -3, value |-> "lazy"]>>

\* The parts of the state a specification does not use.
CodecIdle ==
    /\ val = <<>>
    /\ escaped = <<>>
    /\ unescaped = <<>>
    /\ stage = "idle"

StreamIdle ==
    /\ pb = <<>>
    /\ cur = NoneItem
    /\ nread = 0
    /\ at_end = FALSE
    /\ end_state = ""
    /\ top_eof = FALSE
    /\ feed = Lazy
    /\ gstate = "outer"

LoadIdle ==
    /\ load_result = NoResult
    /\ header = 0
    /\ header_read = 0
    /\ sections = <<>>

EntIdle ==
    /\ entities = <<>>
    /\ ent_pb = <<>>
    /\ raw = <<>>
    /\ ent_end = FALSE
    /\ eiter = "idle"
    /\ yielded = <<>>
    /\ parent = NoneEnt
    /\ epc = "outer"

NoPending == [tag |-> "", code |-> 0, vals |-> <<>>]

XdIdle ==
    /\ xpc = "idle"
    /\ xitems = <<>>
    /\ xstack = <<>>
    /\ xpend = NoPending
    /\ xresult = NoResult

WrIdle ==
    /\ wpc = "idle"
    /\ out = <<>>
    /\ version = "R12"
    /\ handles_enabled = FALSE
    /\ write_handles = FALSE
    /\ wresult = NoResult
    /\ wh_log = <<>>
    /\ wi = 0
    /\ app = ""
    /\ first_items = <<>>

----------------------------------------------------------------------------
(* Characters *)

CARET == 94
SPACE == 32
BACKSLASH == 92
QUESTION == 63

\* The code points the caret codec is exercised on: NUL, RS (0x1E), US (0x1F),
\* space, '@', '^', '_', 'a', DEL, e-acute, and two code points above 0xFF whose
\* low byte is a control character (0x100) or '^' (0x15E).
CaretAlphabet == {0, 30, 31, 32, 64, 94, 95, 97, 127, 233, 256, 350}

\* The code points the unicode codec is exercised on: '\', 'U', '+', '0', 'A',
\* 'a', e-acute, U+4F60, and U+1F600 (outside the BMP).
UnicodeAlphabet == {92, 85, 43, 48, 65, 97, 233, 20320, 128512}

StringsOver(alphabet, n) == UNION {[1..k -> alphabet] : k \in 0..n}

IsAscii(s) == \A i \in 1..Len(s) : s[i] <= 127

\* A Rust char is a Unicode scalar value; the BMP ones are below 0x10000.
IsBMP(s) == \A i \in 1..Len(s) : s[i] <= 65535

----------------------------------------------------------------------------
(* escape_control_characters *)

\* `c as u8`: the low eight bits of the code point.
AsU8(c) == c % 256

needs_escaping(c) == AsU8(c) <= 31 \/ AsU8(c) = 94

\* The match of lines 129-164, for a byte b, as the character pushed.
EscapeTable ==
    <<64, 65, 66, 67, 68, 69, 70, 71, 72, 73, 74, 75, 76, 77, 78, 79,
      80, 81, 82, 83, 84, 85, 86, 87, 88, 89, 90, 91, 92, 93, 94, 95>>

EscapeChar(c) ==
    IF needs_escaping(c)
    THEN <<CARET, IF AsU8(c) <= 31 THEN EscapeTable[AsU8(c) + 1] ELSE SPACE>>
    ELSE <<c>>

RECURSIVE escape_control_characters(_)
escape_control_characters(s) ==
    IF s = <<>> THEN <<>>
    ELSE EscapeChar(Head(s)) \o escape_control_characters(Tail(s))

----------------------------------------------------------------------------
(* CodePairValue::un_escape_string *)

needs_un_escaping(c) == c = CARET

\* val.find(needs_un_escaping): the index of the first '^', 0 when there is none.
FindCaret(s) ==
    IF \E i \in 1..Len(s) : needs_un_escaping(s[i])
    THEN CHOOSE i \in 1..Len(s) :
            needs_un_escaping(s[i]) /\ \A j \in 1..(i - 1) : ~needs_un_escaping(s[j])
    ELSE 0

\* UnEscapeChar without the arm ' ' => b'^' of line 68.
UnEscapeCharNoSpaceArm(c) ==
    IF c >= 64 /\ c <= 95 THEN c - 64
    ELSE AsU8(c)

\* The inner match of lines 35-70, then `c as char`.
UnEscapeChar(c) ==
    IF c >= 64 /\ c <= 95 THEN c - 64
    ELSE IF c = SPACE THEN CARET
    ELSE AsU8(c)

\* The for loop of lines 29-78 over `rest`.
RECURSIVE UnEscapeLoop(_, _, _)
UnEscapeLoop(rest, result, do_escape) ==
    IF rest = <<>> THEN result
    ELSE LET c == Head(rest) IN
         IF c = CARET /\ ~do_escape
         THEN UnEscapeLoop(Tail(rest), result, TRUE)
         ELSE IF do_escape
              THEN UnEscapeLoop(Tail(rest), Append(result, UnEscapeChar(c)), FALSE)
              ELSE UnEscapeLoop(Tail(rest), Append(result, c), FALSE)

un_escape_string(s) ==
    LET first == FindCaret(s) IN
    IF first = 0 THEN s
    ELSE UnEscapeLoop(SubSeq(s, first, Len(s)), SubSeq(s, 1, first - 1), FALSE)

----------------------------------------------------------------------------
(* escape_unicode_to_ascii *)

HexDigit(d) == IF d < 10 THEN 48 + d ELSE 55 + d

RECURSIVE HexUpper(_)
HexUpper(n) ==
    IF n < 16 THEN <<HexDigit(n)>> ELSE Append(HexUpper(n \div 16), HexDigit(n % 16))

\* format!("{:04X}", b): uppercase hexadecimal, zero-padded to a width of at least 4.
Format04X(b) ==
    LET h == HexUpper(b) IN
    [i \in 1..(IF Len(h) < 4 THEN 4 - Len(h) ELSE 0) |-> 48] \o h

EscapeUnicodeChar(c) ==
    IF c >= 128 THEN <<BACKSLASH, 85, 43>> \o Format04X(c) ELSE <<c>>

RECURSIVE escape_unicode_to_ascii(_)
escape_unicode_to_ascii(s) ==
    IF s = <<>> THEN <<>>
    ELSE EscapeUnicodeChar(Head(s)) \o escape_unicode_to_ascii(Tail(s))

----------------------------------------------------------------------------
(* un_escape_ascii_to_unicode *)

\* char::to_digit(16): the value of a hexadecimal digit, -1 for any other character.
ToDigit16(c) ==
    IF c >= 48 /\ c <= 57 THEN c - 48
    ELSE IF c >= 65 /\ c <= 70 THEN c - 55
    ELSE IF c >= 97 /\ c <= 102 THEN c - 87
    ELSE -1

RECURSIVE DigitsValue(_, _)
DigitsValue(ds, acc) ==
    IF ds = <<>> THEN acc
    ELSE IF ToDigit16(Head(ds)) < 0 THEN -1
    ELSE DigitsValue(Tail(ds), acc * 16 + ToDigit16(Head(ds)))

\* u32::from_str_radix(code_str, 16): -1 stands for Err.  An empty string is an
\* error, one leading '+' is accepted, and no digit may be missing after it.
FromStrRadix16(code_str) ==
    LET ds == IF code_str # <<>> /\ Head(code_str) = 43 THEN Tail(code_str)
              ELSE code_str
    IN IF ds = <<>> THEN -1 ELSE DigitsValue(ds, 0)

\* std::char::from_u32: None (-1) for a surrogate or a value above 0x10FFFF.
CharFromU32(code) ==
    IF (code >= 55296 /\ code <= 57343) \/ code > 1114111 THEN -1 ELSE code

\* Lines 225-237: what a complete 7-character sequence pushes onto result.
DecodeSequence(seq) ==
    IF Len(seq) >= 3 /\ SubSeq(seq, 1, 3) = <<BACKSLASH, 85, 43>>
    THEN LET code == FromStrRadix16(SubSeq(seq, 4, Len(seq))) IN
         IF code < 0 \/ CharFromU32(code) < 0 THEN <<QUESTION>>
         ELSE <<CharFromU32(code)>>
    ELSE seq

\* The for loop of lines 211-242; i is the 0-based index of Head(rest).
RECURSIVE UnEscapeUnicodeLoop(_, _, _, _, _, _)
UnEscapeUnicodeLoop(rest, i, result, seq, in_escape_sequence, sequence_start) ==
    IF rest = <<>> THEN result
    ELSE LET c == Head(rest) IN
         IF ~in_escape_sequence
         THEN IF c = BACKSLASH
              THEN UnEscapeUnicodeLoop(Tail(rest), i + 1, result, <<c>>, TRUE, i)
              ELSE UnEscapeUnicodeLoop(Tail(rest), i + 1, Append(result, c), seq,
                                       FALSE, sequence_start)
         ELSE IF i = sequence_start + 6
              THEN UnEscapeUnicodeLoop(Tail(rest), i + 1,
                                       result \o DecodeSequence(Append(seq, c)),
                                       <<>>, FALSE, sequence_start)
              ELSE UnEscapeUnicodeLoop(Tail(rest), i + 1, result, Append(seq, c),
                                       TRUE, sequence_start)

un_escape_ascii_to_unicode(s) == UnEscapeUnicodeLoop(s, 0, <<>>, <<>>, FALSE, 0)

----------------------------------------------------------------------------
(* The codec calls as actions *)

InitCodec(alphabet) ==
    /\ val \in StringsOver(alphabet, MaxStrLen)
    /\ escaped = <<>>
    /\ unescaped = <<>>
    /\ stage = "input"
    /\ StreamIdle /\ LoadIdle /\ EntIdle /\ XdIdle /\ WrIdle
    /\ pc = "idle"

EscapeControl ==
    /\ stage = "input"
    /\ escaped' = escape_control_characters(val)
    /\ stage' = "caret_escaped"
    /\ UNCHANGED <<val, unescaped, streamVars, loadVars, entVars, xdVars, wrVars>>

UnEscapeString ==
    /\ stage = "caret_escaped"
    /\ unescaped' = un_escape_string(escaped)
    /\ stage' = "caret_unescaped"
    /\ UNCHANGED <<val, escaped, streamVars, loadVars, entVars, xdVars, wrVars>>

EscapeUnicode ==
    /\ stage = "input"
    /\ escaped' = escape_unicode_to_ascii(val)
    /\ stage' = "unicode_escaped"
    /\ UNCHANGED <<val, unescaped, streamVars, loadVars, entVars, xdVars, wrVars>>

UnEscapeUnicode ==
    /\ stage = "unicode_escaped"
    /\ unescaped' = un_escape_ascii_to_unicode(escaped)
    /\ stage' = "unicode_unescaped"
    /\ UNCHANGED <<val, escaped, streamVars, loadVars, entVars, xdVars, wrVars>>

\* un_escape_ascii_to_unicode called on the string itself.
UnEscapeUnicodeDirect ==
    /\ stage = "input"
    /\ unescaped' = un_escape_ascii_to_unicode(val)
    /\ stage' = "unicode_unescaped_direct"
    /\ UNCHANGED <<val, escaped, streamVars, loadVars, entVars, xdVars, wrVars>>

\* un_escape_string called on the string itself.
UnEscapeStringDirect ==
    /\ stage = "input"
    /\ unescaped' = un_escape_string(val)
    /\ stage' = "caret_unescaped_direct"
    /\ UNCHANGED <<val, escaped, streamVars, loadVars, entVars, xdVars, wrVars>>

InitCaret == InitCodec(CaretAlphabet)
NextCaret == EscapeControl \/ UnEscapeString \/ UnEscapeStringDirect
SpecCaret == InitCaret /\ [][NextCaret]_vars

InitUnicode == InitCodec(UnicodeAlphabet)
NextUnicode == EscapeUnicode \/ UnEscapeUnicode \/ UnEscapeUnicodeDirect
SpecUnicode == InitUnicode /\ [][NextUnicode]_vars

----------------------------------------------------------------------------
(* format_f64 *)

ZERO == 48
DOT == 46
MINUS == 45

\* The digits after the '.' in format!("{:.12}", val) (line 262).
PRECISION == 12

\* The digits the renderings are made of.
FormatDigits == {ZERO, 53}

\* format!("{:.12}", val) of a finite val: an optional '-', the digits of the
\* integer part with no leading zero other than a lone "0", a '.', and
\* PRECISION digits.
Renderings ==
    {sign \o int \o <<DOT>> \o frac :
        sign \in {<<>>, <<MINUS>>},
        int \in {i \in StringsOver(FormatDigits, MaxIntDigits) :
                    i # <<>> /\ (Len(i) > 1 => Head(i) # ZERO)},
        frac \in [1..PRECISION -> FormatDigits]}

\* while val.ends_with('0') { val.pop(); } (lines 265-267)
RECURSIVE TrimTrailingZeros(_)
TrimTrailingZeros(s) ==
    IF s # <<>> /\ s[Len(s)] = ZERO
    THEN TrimTrailingZeros(SubSeq(s, 1, Len(s) - 1))
    ELSE s

\* format_f64 that leaves a trailing '.' alone.
FormatRenderingNoPush(rendering) == TrimTrailingZeros(rendering)

\* format_f64 after its format! (lines 264-274).
FormatRendering(rendering) ==
    LET trimmed == TrimTrailingZeros(rendering) IN
    IF trimmed # <<>> /\ trimmed[Len(trimmed)] = DOT
    THEN Append(trimmed, ZERO)
    ELSE trimmed

format_f64 ==
    /\ stage = "input"
    /\ escaped' = FormatRendering(val)
    /\ stage' = "formatted"
    /\ UNCHANGED <<val, unescaped, streamVars, loadVars, entVars, xdVars, wrVars>>

InitFormat ==
    /\ val \in Renderings
    /\ escaped = <<>>
    /\ unescaped = <<>>
    /\ stage = "input"
    /\ StreamIdle /\ LoadIdle /\ EntIdle /\ XdIdle /\ WrIdle
    /\ pc = "idle"

NextFormat == format_f64
SpecFormat == InitFormat /\ [][NextFormat]_vars

----------------------------------------------------------------------------
(* The pair stream: PutBack over the code pair reader *)

\* next() can return item: the buffered item if there is one, else what the
\* underlying reader produces, which is any pair of `alphabet`, an error, or
\* None; None for good once it has returned None or produced `max` pairs.
\* A reader bound to written pairs produces them in order, then None.
StreamNext(item, alphabet, max) ==
    IF pb # <<>> THEN item = pb[1]
    ELSE IF feed # Lazy THEN item = (IF feed = <<>> THEN NoneItem ELSE Head(feed))
    ELSE IF at_end \/ nread >= max THEN item = NoneItem
    ELSE item \in alphabet \cup {NoneItem, ErrItem}

\* The grammar of a file made only of well-formed sections of unknown name
\* and closed by 0/EOF, as the state after one more pair: "eof" once the file
\* is complete, "bad" once the pairs are no prefix of such a file.
GrammarStep(g, item) ==
    CASE g = "outer" ->
           IF item = Pair(0, "SECTION") THEN "name"
           ELSE IF item = Pair(0, "EOF") THEN "eof"
           ELSE "bad"
      [] g = "name" ->
           IF IsPair(item) /\ item.code = 2
              /\ item.value \notin {"HEADER", "ENTITIES", "TABLES"}
           THEN "body" ELSE "bad"
      [] g = "body" ->
           IF item = Pair(0, "ENDSEC") THEN "outer"
           ELSE IF IsPair(item) THEN "body"
           ELSE "bad"
      [] OTHER -> g

\* The stream after next() returned item, and after put_back(back[1]) when
\* back is not empty.  PutBack::put_back overwrites the buffer.
StreamTake(item, back) ==
    /\ pb' = back
    /\ cur' = item
    /\ nread' = IF pb = <<>> /\ IsPair(item) THEN nread + 1 ELSE nread
    /\ at_end' = (at_end \/ (pb = <<>> /\ item = NoneItem))
    /\ end_state' = IF pb = <<>> /\ item = NoneItem /\ ~at_end THEN pc ELSE end_state
    /\ top_eof' = (top_eof \/ (pc = "outer" /\ item = Pair(0, "EOF")))
    /\ feed' = IF pb = <<>> /\ feed # Lazy /\ feed # <<>> THEN Tail(feed) ELSE feed
    /\ gstate' = IF pb = <<>> THEN GrammarStep(gstate, item) ELSE gstate

----------------------------------------------------------------------------
(* Drawing::load and Drawing::read_sections *)

\* The pairs load is run on.
LoadPairs ==
    {Pair(0, "SECTION"), Pair(0, "ENDSEC"), Pair(0, "EOF"),
     Pair(0, "TABLE"), Pair(0, "ENDTAB"),
     Pair(0, "POLYLINE"), Pair(0, "VERTEX"), Pair(0, "SEQEND"),
     Pair(2, "HEADER"), Pair(2, "ENTITIES"), Pair(2, "TABLES"), Pair(2, "FOO"),
     Pair(9, "xyz")}

KnownSections == {"HEADER", "ENTITIES", "TABLES"}

\* return Err(...): load ends with the error.
Fail(kind, msg) ==
    /\ pc' = "done"
    /\ load_result' = ErrResult(kind, msg)

Goto(next_pc) ==
    /\ pc' = next_pc
    /\ UNCHANGED load_result

\* ReadSectionsOuter that skips a pair whose code is not 0 instead of failing.
ReadSectionsOuterSkipping ==
    /\ pc = "outer"
    /\ \E item \in LoadPairs \cup {NoneItem, ErrItem} :
         /\ StreamNext(item, LoadPairs, MaxPairs)
         /\ IF IsPair(item) /\ item.code = 0 /\ item.value = "EOF"
            THEN StreamTake(item, <<item>>) /\ Goto("load_eof")
            ELSE IF IsPair(item) /\ item.code = 0 /\ item.value = "SECTION"
            THEN StreamTake(item, <<>>) /\ Goto("section_name")
            ELSE IF IsPair(item) /\ item.code = 0
            THEN StreamTake(item, <<>>)
                 /\ Fail("UnexpectedCodePair", "expected 0/SECTION")
            ELSE IF IsPair(item)
            THEN StreamTake(item, <<>>) /\ Goto("outer")
            ELSE IF item = ErrItem
            THEN StreamTake(item, <<>>) /\ Fail("Io", "")
            ELSE StreamTake(item, <<>>) /\ Goto("load_eof")
    /\ UNCHANGED <<xdVars, wrVars, codecVars, header, header_read, sections, entVars>>

\* ReadSectionsOuter that consumes 0/EOF instead of putting it back.
ReadSectionsOuterTakingEof ==
    /\ pc = "outer"
    /\ \E item \in LoadPairs \cup {NoneItem, ErrItem} :
         /\ StreamNext(item, LoadPairs, MaxPairs)
         /\ StreamTake(item, <<>>)
         /\ IF IsPair(item) /\ item.code = 0 /\ item.value = "EOF"
            THEN Goto("load_eof")
            ELSE IF IsPair(item) /\ item.code = 0 /\ item.value = "SECTION"
            THEN Goto("section_name")
            ELSE IF IsPair(item) /\ item.code = 0
            THEN Fail("UnexpectedCodePair", "expected 0/SECTION")
            ELSE IF IsPair(item)
            THEN Fail("UnexpectedCodePair", "expected 0/SECTION or 0/EOF")
            ELSE IF item = ErrItem
            THEN Fail("Io", "")
            ELSE Goto("load_eof")
    /\ UNCHANGED <<xdVars, wrVars, codecVars, header, header_read, sections, entVars>>

\* One turn of the loop of read_sections, up to the pair after 0/SECTION
\* (lines 137-145, 168-174).
ReadSectionsOuter ==
    /\ pc = "outer"
    /\ \E item \in LoadPairs \cup {NoneItem, ErrItem} :
         /\ StreamNext(item, LoadPairs, MaxPairs)
         /\ IF IsPair(item) /\ item.code = 0 /\ item.value = "EOF"
            THEN StreamTake(item, <<item>>) /\ Goto("load_eof")
            ELSE IF IsPair(item) /\ item.code = 0 /\ item.value = "SECTION"
            THEN StreamTake(item, <<>>) /\ Goto("section_name")
            ELSE IF IsPair(item) /\ item.code = 0
            THEN StreamTake(item, <<>>)
                 /\ Fail("UnexpectedCodePair", "expected 0/SECTION")
            ELSE IF IsPair(item)
            THEN StreamTake(item, <<>>)
                 /\ Fail("UnexpectedCodePair", "expected 0/SECTION or 0/EOF")
            ELSE IF item = ErrItem
            THEN StreamTake(item, <<>>) /\ Fail("Io", "")
            ELSE StreamTake(item, <<>>) /\ Goto("load_eof")
    /\ UNCHANGED <<xdVars, wrVars, codecVars, header, header_read, sections, entVars>>

\* The pair after 0/SECTION and the dispatch on the section's name
\* (lines 146-154, 163-165).
ReadSectionName ==
    /\ pc = "section_name"
    /\ \E item \in LoadPairs \cup {NoneItem, ErrItem} :
         /\ StreamNext(item, LoadPairs, MaxPairs)
         /\ StreamTake(item, <<>>)
         /\ IF IsPair(item) /\ item.code = 2
            THEN /\ sections' = Append(sections, item.value)
                 /\ UNCHANGED <<header, header_read>>
                 /\ Goto(CASE item.value = "HEADER" -> "header"
                           [] item.value = "ENTITIES" -> "entities_begin"
                           [] item.value = "TABLES" -> "tables"
                           [] OTHER -> "swallow_section")
            ELSE /\ UNCHANGED <<sections, header, header_read>>
                 /\ IF IsPair(item)
                    THEN Fail("UnexpectedCodePair", "expected 0/<section-name>")
                    ELSE IF item = ErrItem THEN Fail("Io", "")
                    ELSE Fail("UnexpectedEndOfInput", "")
    /\ UNCHANGED <<xdVars, wrVars, codecVars, entVars>>

\* swallow_section that stops at 0/ENDSEC without putting it back.
SwallowSectionNoPutBack ==
    /\ pc = "swallow_section"
    /\ \E item \in LoadPairs \cup {NoneItem, ErrItem} :
         /\ StreamNext(item, LoadPairs, MaxPairs)
         /\ StreamTake(item, <<>>)
         /\ IF IsPair(item) /\ item.code = 0 /\ item.value = "ENDSEC"
            THEN Goto("expect_endsec")
            ELSE IF IsPair(item) THEN Goto("swallow_section")
            ELSE IF item = ErrItem THEN Fail("Io", "")
            ELSE Goto("expect_endsec")
    /\ UNCHANGED <<xdVars, wrVars, codecVars, header, header_read, sections, entVars>>

\* One turn of the loop of swallow_section (lines 181-192).
SwallowSection ==
    /\ pc = "swallow_section"
    /\ \E item \in LoadPairs \cup {NoneItem, ErrItem} :
         /\ StreamNext(item, LoadPairs, MaxPairs)
         /\ IF IsPair(item) /\ item.code = 0 /\ item.value = "ENDSEC"
            THEN StreamTake(item, <<item>>) /\ Goto("expect_endsec")
            ELSE IF IsPair(item)
            THEN StreamTake(item, <<>>) /\ Goto("swallow_section")
            ELSE IF item = ErrItem
            THEN StreamTake(item, <<>>) /\ Fail("Io", "")
            ELSE StreamTake(item, <<>>) /\ Goto("expect_endsec")
    /\ UNCHANGED <<xdVars, wrVars, codecVars, header, header_read, sections, entVars>>

\* ExpectEndSec that takes the end of the stream for the end of the section.
ExpectEndSecTolerant ==
    /\ pc = "expect_endsec"
    /\ \E item \in LoadPairs \cup {NoneItem, ErrItem} :
         /\ StreamNext(item, LoadPairs, MaxPairs)
         /\ StreamTake(item, <<>>)
         /\ IF IsPair(item) /\ item.code = 0 /\ item.value = "ENDSEC"
            THEN Goto("outer")
            ELSE IF IsPair(item)
            THEN Fail("UnexpectedCodePair", "expected 0/ENDSEC")
            ELSE IF item = ErrItem THEN Fail("Io", "")
            ELSE Goto("outer")
    /\ UNCHANGED <<xdVars, wrVars, codecVars, header, header_read, sections, entVars>>

\* The pair after a section's body (lines 156-161).
ExpectEndSec ==
    /\ pc = "expect_endsec"
    /\ \E item \in LoadPairs \cup {NoneItem, ErrItem} :
         /\ StreamNext(item, LoadPairs, MaxPairs)
         /\ StreamTake(item, <<>>)
         /\ IF IsPair(item) /\ item.code = 0 /\ item.value = "ENDSEC"
            THEN Goto("outer")
            ELSE IF IsPair(item)
            THEN Fail("UnexpectedCodePair", "expected 0/ENDSEC")
            ELSE IF item = ErrItem THEN Fail("Io", "")
            ELSE Fail("UnexpectedEndOfInput", "")
    /\ UNCHANGED <<xdVars, wrVars, codecVars, header, header_read, sections, entVars>>

\* LoadFinish that looks at the 0/EOF pair and leaves it in the buffer.
LoadFinishPeeking ==
    /\ pc = "load_eof"
    /\ \E item \in LoadPairs \cup {NoneItem, ErrItem} :
         /\ StreamNext(item, LoadPairs, MaxPairs)
         /\ StreamTake(item, IF IsPair(item) THEN <<item>> ELSE <<>>)
         /\ pc' = "done"
         /\ load_result' =
              IF IsPair(item) /\ item.code = 0 /\ item.value = "EOF" THEN OkResult
              ELSE IF IsPair(item)
              THEN ErrResult("UnexpectedCodePair", "expected 0/EOF")
              ELSE IF item = ErrItem THEN ErrResult("Io", "")
              ELSE OkResult
    /\ UNCHANGED <<xdVars, wrVars, codecVars, header, header_read, sections, entVars>>

\* load after read_sections returned Ok (lines 79-84).
LoadFinish ==
    /\ pc = "load_eof"
    /\ \E item \in LoadPairs \cup {NoneItem, ErrItem} :
         /\ StreamNext(item, LoadPairs, MaxPairs)
         /\ StreamTake(item, <<>>)
         /\ pc' = "done"
         /\ load_result' =
              IF IsPair(item) /\ item.code = 0 /\ item.value = "EOF" THEN OkResult
              ELSE IF IsPair(item)
              THEN ErrResult("UnexpectedCodePair", "expected 0/EOF")
              ELSE IF item = ErrItem THEN ErrResult("Io", "")
              ELSE OkResult
    /\ UNCHANGED <<xdVars, wrVars, codecVars, header, header_read, sections, entVars>>

----------------------------------------------------------------------------
(* Header::read, whose source is not part of the model's sources: it applies
   the pairs of the header, to a Header of its own, up to the next 0 pair,
   which it puts back.  drawing.header is assigned only when it returns Ok
   (drawing.rs line 149: drawing.header = try!(Header::read(iter))). *)

HeaderRead ==
    /\ pc = "header"
    /\ \E item \in LoadPairs \cup {NoneItem, ErrItem} :
         /\ StreamNext(item, LoadPairs, MaxPairs)
         /\ IF IsPair(item) /\ item.code = 0
            THEN StreamTake(item, <<item>>) /\ Goto("expect_endsec")
                 /\ header' = header_read
                 /\ header_read' = 0
            ELSE IF IsPair(item)
            THEN StreamTake(item, <<>>) /\ Goto("header")
                 /\ header_read' = header_read + 1
                 /\ UNCHANGED header
            ELSE IF item = ErrItem
            THEN StreamTake(item, <<>>) /\ Fail("Io", "")
                 /\ header_read' = 0
                 /\ UNCHANGED header
            ELSE StreamTake(item, <<>>) /\ Goto("expect_endsec")
                 /\ header' = header_read
                 /\ header_read' = 0
    /\ UNCHANGED <<xdVars, wrVars, codecVars, sections, entVars>>

----------------------------------------------------------------------------
(* Drawing::read_tables and Drawing::swallow_table *)

\* read_tables that skips a pair with a non-zero code met between tables
\* instead of failing.
ReadTablesSkipping ==
    /\ pc = "tables"
    /\ \E item \in LoadPairs \cup {NoneItem, ErrItem} :
         /\ StreamNext(item, LoadPairs, MaxPairs)
         /\ IF IsPair(item) /\ item.code = 0 /\ item.value = "ENDSEC"
            THEN StreamTake(item, <<item>>) /\ Goto("expect_endsec")
            ELSE IF IsPair(item) /\ item.code = 0 /\ item.value = "TABLE"
            THEN StreamTake(item, <<>>) /\ Goto("table_type")
            ELSE IF IsPair(item) /\ item.code # 0
            THEN StreamTake(item, <<>>) /\ Goto("tables")
            ELSE IF IsPair(item)
            THEN StreamTake(item, <<>>) /\ Fail("UnexpectedCodePair", "")
            ELSE IF item = ErrItem
            THEN StreamTake(item, <<>>) /\ Fail("Io", "")
            ELSE StreamTake(item, <<>>) /\ Fail("UnexpectedEndOfInput", "")
    /\ UNCHANGED <<xdVars, wrVars, codecVars, header, header_read, sections, entVars>>

\* One turn of the loop of read_tables (lines 264-284).
ReadTables ==
    /\ pc = "tables"
    /\ \E item \in LoadPairs \cup {NoneItem, ErrItem} :
         /\ StreamNext(item, LoadPairs, MaxPairs)
         /\ IF IsPair(item) /\ item.code = 0 /\ item.value = "ENDSEC"
            THEN StreamTake(item, <<item>>) /\ Goto("expect_endsec")
            ELSE IF IsPair(item) /\ item.code = 0 /\ item.value = "TABLE"
            THEN StreamTake(item, <<>>) /\ Goto("table_type")
            ELSE IF IsPair(item)
            THEN StreamTake(item, <<>>) /\ Fail("UnexpectedCodePair", "")
            ELSE IF item = ErrItem
            THEN StreamTake(item, <<>>) /\ Fail("Io", "")
            ELSE StreamTake(item, <<>>) /\ Fail("UnexpectedEndOfInput", "")
    /\ UNCHANGED <<xdVars, wrVars, codecVars, header, header_read, sections, entVars>>

\* read_specific_table, whose source is not part of the model's sources: it
\* requires the 2/<table type> pair, hands the table's body to the reader of
\* that type (here swallow_table, the reader of the types it does not know),
\* and then requires 0/ENDTAB.
ReadTableType ==
    /\ pc = "table_type"
    /\ \E item \in LoadPairs \cup {NoneItem, ErrItem} :
         /\ StreamNext(item, LoadPairs, MaxPairs)
         /\ StreamTake(item, <<>>)
         /\ IF IsPair(item) /\ item.code = 2 THEN Goto("swallow_table")
            ELSE IF IsPair(item) THEN Fail("ExpectedTableType", "")
            ELSE IF item = ErrItem THEN Fail("Io", "")
            ELSE Fail("UnexpectedEndOfInput", "")
    /\ UNCHANGED <<xdVars, wrVars, codecVars, header, header_read, sections, entVars>>

\* swallow_table that keeps looping when the stream has ended.
SwallowTableNoEnd ==
    /\ pc = "swallow_table"
    /\ \E item \in LoadPairs \cup {NoneItem, ErrItem} :
         /\ StreamNext(item, LoadPairs, MaxPairs)
         /\ IF /\ IsPair(item) /\ item.code = 0
               /\ item.value \in {"TABLE", "ENDSEC", "ENDTAB"}
            THEN StreamTake(item, <<item>>) /\ Goto("expect_endtab")
            ELSE IF IsPair(item)
            THEN StreamTake(item, <<>>) /\ Goto("swallow_table")
            ELSE IF item = ErrItem
            THEN StreamTake(item, <<>>) /\ Fail("Io", "")
            ELSE StreamTake(item, <<>>) /\ Goto("swallow_table")
    /\ UNCHANGED <<xdVars, wrVars, codecVars, header, header_read, sections, entVars>>

\* One turn of the loop of swallow_table (lines 291-307).
SwallowTable ==
    /\ pc = "swallow_table"
    /\ \E item \in LoadPairs \cup {NoneItem, ErrItem} :
         /\ StreamNext(item, LoadPairs, MaxPairs)
         /\ IF /\ IsPair(item) /\ item.code = 0
               /\ item.value \in {"TABLE", "ENDSEC", "ENDTAB"}
            THEN StreamTake(item, <<item>>) /\ Goto("expect_endtab")
            ELSE IF IsPair(item)
            THEN StreamTake(item, <<>>) /\ Goto("swallow_table")
            ELSE IF item = ErrItem
            THEN StreamTake(item, <<>>) /\ Fail("Io", "")
            ELSE StreamTake(item, <<>>) /\ Fail("UnexpectedEndOfInput", "")
    /\ UNCHANGED <<xdVars, wrVars, codecVars, header, header_read, sections, entVars>>

\* read_specific_table after the table's body: 0/ENDTAB is required.
ExpectEndTab ==
    /\ pc = "expect_endtab"
    /\ \E item \in LoadPairs \cup {NoneItem, ErrItem} :
         /\ StreamNext(item, LoadPairs, MaxPairs)
         /\ StreamTake(item, <<>>)
         /\ IF IsPair(item) /\ item.code = 0 /\ item.value = "ENDTAB"
            THEN Goto("tables")
            ELSE IF IsPair(item)
            THEN Fail("UnexpectedCodePair", "expected 0/ENDTAB")
            ELSE IF item = ErrItem THEN Fail("Io", "")
            ELSE Fail("UnexpectedEndOfInput", "")
    /\ UNCHANGED <<xdVars, wrVars, codecVars, header, header_read, sections, entVars>>

----------------------------------------------------------------------------
(* The entity stream: PutBack over the EntityIter *)

\* PutBack::next can answer: the buffer holds an entity, or the EntityIter is
\* between entities and has one ready or has ended.
EntNextReady == ent_pb # <<>> \/ (eiter = "idle" /\ (raw # <<>> \/ ent_end))

\* PutBack::next of the entity stream: the buffer first, then the iterator.
EntNextItem ==
    IF ent_pb # <<>> THEN ent_pb[1]
    ELSE IF raw # <<>> THEN Head(raw)
    ELSE NoneEnt

\* The entity stream after next(), and after put_back(back[1]) when back is
\* not empty.  PutBack::put_back overwrites the buffer.
EntTake(back) ==
    /\ ent_pb' = back
    /\ raw' = IF ent_pb = <<>> /\ raw # <<>> THEN Tail(raw) ELSE raw
    /\ yielded' = IF ent_pb = <<>> /\ raw # <<>> THEN Append(yielded, Head(raw))
                  ELSE yielded
    /\ UNCHANGED <<ent_end, eiter>>

----------------------------------------------------------------------------
(* EntityIter, whose source is not part of the model's sources: it turns the
   pairs of the ENTITIES section into raw entities.  A 0/<entity type> pair
   starts an entity, the pairs after it up to the next 0 pair are its fields,
   and that 0 pair is put back.  Any other item ends the iteration and is put
   back, so that 0/ENDSEC is left for read_sections. *)

EntityTypes == {"POLYLINE", "VERTEX", "SEQEND"}

EntityKind(type_string) ==
    CASE type_string = "POLYLINE" -> "Polyline"
      [] type_string = "VERTEX" -> "Vertex"
      [] type_string = "SEQEND" -> "Seqend"

\* EntityIter::next, up to the entity's first pair.
EntityIterNext ==
    /\ pc = "entities"
    /\ ~EntNextReady
    /\ eiter = "idle"
    /\ \E item \in LoadPairs \cup {NoneItem, ErrItem} :
         /\ StreamNext(item, LoadPairs, MaxPairs)
         /\ IF IsPair(item) /\ item.code = 0 /\ item.value \in EntityTypes
            THEN /\ StreamTake(item, <<>>)
                 /\ raw' = <<Entity(EntityKind(item.value), FALSE, nread')>>
                 /\ eiter' = "body"
                 /\ UNCHANGED ent_end
            ELSE /\ StreamTake(item, IF item = NoneItem THEN <<>> ELSE <<item>>)
                 /\ ent_end' = TRUE
                 /\ UNCHANGED <<raw, eiter>>
    /\ UNCHANGED <<xdVars, wrVars, codecVars, loadVars, entities, ent_pb, yielded, parent, epc>>

\* EntityIter::next inside an entity: one pair of its body.
EntityIterBody ==
    /\ pc = "entities"
    /\ eiter = "body"
    /\ \E item \in LoadPairs \cup {NoneItem, ErrItem} :
         /\ StreamNext(item, LoadPairs, MaxPairs)
         /\ IF IsPair(item) /\ item.code # 0
            THEN StreamTake(item, <<>>) /\ UNCHANGED eiter
            ELSE /\ StreamTake(item, IF item = NoneItem THEN <<>> ELSE <<item>>)
                 /\ eiter' = "idle"
    /\ UNCHANGED <<xdVars, wrVars, codecVars, loadVars, entities, ent_pb, raw, ent_end, yielded,
                   parent, epc>>

----------------------------------------------------------------------------
(* Drawing::read_entities and Drawing::swallow_seqend *)

\* ReadEntitiesOuter that gathers for every Insert, whatever has_attributes.
ReadEntitiesOuterAnyInsert ==
    /\ pc = "entities"
    /\ epc = "outer"
    /\ EntNextReady
    /\ LET e == EntNextItem IN
       /\ EntTake(<<>>)
       /\ IF e.kind = "Insert" \/ e.kind = "Polyline"
          THEN /\ parent' = e
               /\ epc' = "gather"
               /\ UNCHANGED <<entities, pc>>
          ELSE IF e.kind # "None"
          THEN /\ entities' = Append(entities, e)
               /\ UNCHANGED <<parent, epc, pc>>
          ELSE /\ pc' = "expect_endsec"
               /\ UNCHANGED <<entities, parent, epc>>
    /\ UNCHANGED <<xdVars, wrVars, codecVars, streamVars, load_result, header, header_read, sections>>

\* The outer loop of read_entities: one call of iter.next() and its match arm,
\* up to the gathering loop of an Insert (with has_attributes) or a Polyline.
ReadEntitiesOuter ==
    /\ pc = "entities"
    /\ epc = "outer"
    /\ EntNextReady
    /\ LET e == EntNextItem IN
       /\ EntTake(<<>>)
       /\ IF (e.kind = "Insert" /\ e.has_attributes) \/ e.kind = "Polyline"
          THEN /\ parent' = e
               /\ epc' = "gather"
               /\ UNCHANGED <<entities, pc>>
          ELSE IF e.kind # "None"
          THEN /\ entities' = Append(entities, e)
               /\ UNCHANGED <<parent, epc, pc>>
          ELSE /\ pc' = "expect_endsec"
               /\ UNCHANGED <<entities, parent, epc>>
    /\ UNCHANGED <<xdVars, wrVars, codecVars, streamVars, load_result, header, header_read, sections>>

\* ReadEntitiesGather stopping after the first child: a break after the push.
ReadEntitiesGatherOnce ==
    /\ pc = "entities"
    /\ epc = "gather"
    /\ EntNextReady
    /\ LET e == EntNextItem IN
       IF parent.kind = "Insert" /\ e.kind = "Attribute"
       THEN /\ EntTake(<<>>)
            /\ parent' = [parent EXCEPT !.attributes = Append(@, e)]
            /\ epc' = "seqend"
       ELSE IF parent.kind = "Polyline" /\ e.kind = "Vertex"
       THEN /\ EntTake(<<>>)
            /\ parent' = [parent EXCEPT !.vertices = Append(@, e)]
            /\ epc' = "seqend"
       ELSE IF e.kind # "None"
       THEN /\ EntTake(<<e>>)
            /\ epc' = "seqend"
            /\ UNCHANGED parent
       ELSE /\ EntTake(<<>>)
            /\ epc' = "seqend"
            /\ UNCHANGED parent
    /\ UNCHANGED <<xdVars, wrVars, codecVars, streamVars, loadVars, entities>>

\* ReadEntitiesGather that drops the entity ending the run instead of putting
\* it back.
ReadEntitiesGatherLosing ==
    /\ pc = "entities"
    /\ epc = "gather"
    /\ EntNextReady
    /\ LET e == EntNextItem IN
       IF parent.kind = "Insert" /\ e.kind = "Attribute"
       THEN /\ EntTake(<<>>)
            /\ parent' = [parent EXCEPT !.attributes = Append(@, e)]
            /\ UNCHANGED epc
       ELSE IF parent.kind = "Polyline" /\ e.kind = "Vertex"
       THEN /\ EntTake(<<>>)
            /\ parent' = [parent EXCEPT !.vertices = Append(@, e)]
            /\ UNCHANGED epc
       ELSE /\ EntTake(<<>>)
            /\ epc' = "seqend"
            /\ UNCHANGED parent
    /\ UNCHANGED <<xdVars, wrVars, codecVars, streamVars, loadVars, entities>>

\* One turn of the gathering loop (lines 203-213 for an Insert, 225-235 for a
\* Polyline): an Attribute (a Vertex) is pushed onto the parent's children, any
\* other entity is put back and ends the loop, and so does None.
ReadEntitiesGather ==
    /\ pc = "entities"
    /\ epc = "gather"
    /\ EntNextReady
    /\ LET e == EntNextItem IN
       IF parent.kind = "Insert" /\ e.kind = "Attribute"
       THEN /\ EntTake(<<>>)
            /\ parent' = [parent EXCEPT !.attributes = Append(@, e)]
            /\ UNCHANGED epc
       ELSE IF parent.kind = "Polyline" /\ e.kind = "Vertex"
       THEN /\ EntTake(<<>>)
            /\ parent' = [parent EXCEPT !.vertices = Append(@, e)]
            /\ UNCHANGED epc
       ELSE IF e.kind # "None"
       THEN /\ EntTake(<<e>>)
            /\ epc' = "seqend"
            /\ UNCHANGED parent
       ELSE /\ EntTake(<<>>)
            /\ epc' = "seqend"
            /\ UNCHANGED parent
    /\ UNCHANGED <<xdVars, wrVars, codecVars, streamVars, loadVars, entities>>

\* swallow_seqend that consumes the entity after the run whatever its kind.
SwallowSeqendAny ==
    /\ pc = "entities"
    /\ epc = "seqend"
    /\ EntNextReady
    /\ EntTake(<<>>)
    /\ entities' = Append(entities, parent)
    /\ parent' = NoneEnt
    /\ epc' = "outer"
    /\ UNCHANGED <<xdVars, wrVars, codecVars, streamVars, loadVars>>

\* swallow_seqend, then the push of the gathered parent (lines 215-221,
\* 237-243): a Seqend is consumed, any other entity is put back.
SwallowSeqend ==
    /\ pc = "entities"
    /\ epc = "seqend"
    /\ EntNextReady
    /\ LET e == EntNextItem IN
       IF e.kind = "Seqend" \/ e.kind = "None"
       THEN EntTake(<<>>)
       ELSE EntTake(<<e>>)
    /\ entities' = Append(entities, parent)
    /\ parent' = NoneEnt
    /\ epc' = "outer"
    /\ UNCHANGED <<xdVars, wrVars, codecVars, streamVars, loadVars>>

\* The folding of read_entities as a function of the whole entity sequence,
\* for feeding a folded list through read_entities again.

\* The entity kind a gathering loop moves into its parent.
ChildKind(e) == IF e.kind = "Insert" THEN "Attribute" ELSE "Vertex"

\* The first arm (Insert with has_attributes) or the second arm (Polyline).
IsGatherer(e) == (e.kind = "Insert" /\ e.has_attributes) \/ e.kind = "Polyline"

\* How many entities the gathering loop takes from the front of s.
RECURSIVE RunLength(_, _)
RunLength(s, kind) ==
    IF s # <<>> /\ Head(s).kind = kind THEN 1 + RunLength(Tail(s), kind) ELSE 0

\* swallow_seqend that never consumes the Seqend.
SkipSeqendKeeping(s) == s

\* swallow_seqend: s without its first entity when that is a Seqend.
SkipSeqend(s) == IF s # <<>> /\ Head(s).kind = "Seqend" THEN Tail(s) ELSE s

\* The parent after its gathering loop took children.
WithChildren(e, children) ==
    IF e.kind = "Insert"
    THEN [e EXCEPT !.attributes = @ \o children]
    ELSE [e EXCEPT !.vertices = @ \o children]

RECURSIVE FoldEntities(_, _)
FoldEntities(s, acc) ==
    IF s = <<>> THEN acc
    ELSE LET e == Head(s)
             rest == Tail(s)
             n == RunLength(rest, ChildKind(e))
         IN IF IsGatherer(e)
            THEN FoldEntities(SkipSeqend(SubSeq(rest, n + 1, Len(rest))),
                              Append(acc, WithChildren(e, SubSeq(rest, 1, n))))
            ELSE FoldEntities(rest, Append(acc, e))

\* read_entities run on the entities of s, from an empty entity list.
read_entities(s) == FoldEntities(s, <<>>)

\* The raw entities read_entities is run on: Insert with and without
\* has_attributes, Polyline, Attribute, Vertex, Seqend and a leaf (Line).
RawShapes ==
    {<<"Insert", TRUE>>, <<"Insert", FALSE>>, <<"Polyline", FALSE>>,
     <<"Attribute", FALSE>>, <<"Vertex", FALSE>>, <<"Seqend", FALSE>>,
     <<"Line", FALSE>>}

RawSequences ==
    UNION {{[i \in 1..k |-> Entity(f[i][1], f[i][2], i)] : f \in [1..k -> RawShapes]}
           : k \in 0..MaxEnts}

\* read_entities on a stream of raw entities: the EntityIter hands over `raw`
\* and then returns None.
InitEntities ==
    /\ CodecIdle /\ StreamIdle /\ LoadIdle /\ XdIdle /\ WrIdle
    /\ pc = "entities"
    /\ entities = <<>>
    /\ ent_pb = <<>>
    /\ raw \in RawSequences
    /\ ent_end = TRUE
    /\ eiter = "idle"
    /\ yielded = <<>>
    /\ parent = NoneEnt
    /\ epc = "outer"

NextEntities == ReadEntitiesOuter \/ ReadEntitiesGather \/ SwallowSeqend
SpecEntities == InitEntities /\ [][NextEntities]_vars

\* A raw entity of the given shape; a "PolylineHeld" is a Polyline that holds
\* a Vertex before read_entities meets it.
RawEntity(shape, i) ==
    IF shape[1] = "PolylineHeld"
    THEN [Entity("Polyline", FALSE, i) EXCEPT
              !.vertices = <<Entity("Vertex", FALSE, 10 * i)>>]
    ELSE Entity(shape[1], shape[2], i)

RawSequencesHeld ==
    UNION {{[i \in 1..k |-> RawEntity(f[i], i)]
            : f \in [1..k -> RawShapes \cup {<<"PolylineHeld", FALSE>>}]}
           : k \in 0..MaxEnts}

\* read_entities on raw entities some of which hold children already.
InitEntitiesHeld ==
    /\ CodecIdle /\ StreamIdle /\ LoadIdle /\ XdIdle /\ WrIdle
    /\ pc = "entities"
    /\ entities = <<>>
    /\ ent_pb = <<>>
    /\ raw \in RawSequencesHeld
    /\ ent_end = TRUE
    /\ eiter = "idle"
    /\ yielded = <<>>
    /\ parent = NoneEnt
    /\ epc = "outer"

SpecEntitiesHeld == InitEntitiesHeld /\ [][NextEntities]_vars

\* read_entities is entered: PutBack::new(EntityIter { iter }) (line 198).
ReadEntitiesBegin ==
    /\ pc = "entities_begin"
    /\ pc' = "entities"
    /\ ent_pb' = <<>>
    /\ raw' = <<>>
    /\ ent_end' = FALSE
    /\ eiter' = "idle"
    /\ epc' = "outer"
    /\ UNCHANGED <<xdVars, wrVars, codecVars, streamVars, load_result, header, header_read, sections,
                   entities, yielded, parent>>

----------------------------------------------------------------------------
(* Drawing::load on a pair stream *)

\* Drawing::new() and PutBack::new(reader) (lines 75-77).
InitLoad ==
    /\ CodecIdle /\ StreamIdle /\ LoadIdle /\ EntIdle /\ XdIdle /\ WrIdle
    /\ pc = "outer"

NextLoad ==
    \/ ReadSectionsOuter
    \/ ReadSectionName
    \/ HeaderRead
    \/ SwallowSection
    \/ ExpectEndSec
    \/ ReadTables
    \/ ReadTableType
    \/ SwallowTable
    \/ ExpectEndTab
    \/ ReadEntitiesBegin
    \/ EntityIterNext
    \/ EntityIterBody
    \/ ReadEntitiesOuter
    \/ ReadEntitiesGather
    \/ SwallowSeqend
    \/ LoadFinish

SpecLoad == InitLoad /\ [][NextLoad]_vars

\* load runs to its return: the program is sequential and each step of it is
\* taken as soon as it can be.
SpecLoadFair == SpecLoad /\ WF_vars(NextLoad)

----------------------------------------------------------------------------
(* XData::read_item and XDataItem::read_item *)

XDATA_APPLICATIONNAME == 1001
XDATA_STRING == 1000
XDATA_CONTROLGROUP == 1002
XDATA_LAYER == 1003
XDATA_BINARYDATA == 1004
XDATA_HANDLE == 1005
XDATA_THREEREALS == 1010
XDATA_WORLDSPACEPOSITION == 1011
XDATA_WORLDSPACEDISPLACEMENT == 1012
XDATA_WORLDDIRECTION == 1013
XDATA_REAL == 1040
XDATA_DISTANCE == 1041
XDATA_SCALEFACTOR == 1042
XDATA_INTEGER == 1070
XDATA_LONG == 1071

\* The pairs XData::read_item is run on: a 0 pair, a pair of an object's own
\* (code 5), a string, an application name, the two control strings, a
\* three-real with two values and a real, an integer, a code that is no XDATA
\* code, and a handle and binary data in both letter cases (the writer emits
\* the upper case one).
XDataPairs ==
    {Pair(0, "LINE"), Pair(5, "1F"), Pair(1000, "text"), Pair(1001, "ACAD"),
     Pair(1002, "{"), Pair(1002, "}"), Pair(1010, "1.0"), Pair(1010, "4.0"),
     Pair(1040, "2.0"),
     Pair(1070, "7"), Pair(1020, "3.0"), Pair(1005, "1F"), Pair(1005, "1f"),
     Pair(1004, "0a"), Pair(1004, "0A")}

\* pair.as_handle(): the number a string of hexadecimal digits stands for,
\* in either letter case.
ParseHandle(s) ==
    CASE s = "1F" -> "31"
      [] s = "1f" -> "31"

\* as_handle(h): the number in upper case hexadecimal digits.
FormatHandle(h) ==
    CASE h = "31" -> "1F"

\* parse_hex_string: the bytes a string of hexadecimal digit pairs stands for.
ParseHexString(s) ==
    CASE s = "0a" -> "[10]"
      [] s = "0A" -> "[10]"

\* format!("{:02X}", b) over the bytes (lines 231-235).
FormatHexString(data) ==
    CASE data = "[10]" -> "0A"

\* What XDataItem::read_item keeps of the pair's value (lines 112, 138-143,
\* 163-167).
ReadValue(pair) ==
    IF pair.code = XDATA_HANDLE THEN ParseHandle(pair.value)
    ELSE IF pair.code = XDATA_BINARYDATA THEN ParseHexString(pair.value)
    ELSE pair.value

\* An XDataItem: its variant, the values a scalar (one) or a three-real (x, y,
\* z) holds, and the items of a ControlGroup.
XDataItem(tag, vals, items) == [tag |-> tag, vals |-> vals, items |-> items]

\* The variant of the one-pair items, by group code.
ScalarTag(code) ==
    CASE code = XDATA_STRING -> "Str"
      [] code = XDATA_LAYER -> "LayerName"
      [] code = XDATA_BINARYDATA -> "BinaryData"
      [] code = XDATA_HANDLE -> "Handle"
      [] code = XDATA_REAL -> "Real"
      [] code = XDATA_DISTANCE -> "Distance"
      [] code = XDATA_SCALEFACTOR -> "ScaleFactor"
      [] code = XDATA_INTEGER -> "Integer"
      [] code = XDATA_LONG -> "Long"
      [] OTHER -> ""

\* The variant of the three-pair items, by group code.
TripleTag(code) ==
    CASE code = XDATA_THREEREALS -> "ThreeReals"
      [] code = XDATA_WORLDSPACEDISPLACEMENT -> "WorldSpaceDisplacement"
      [] code = XDATA_WORLDSPACEPOSITION -> "WorldSpacePosition"
      [] code = XDATA_WORLDDIRECTION -> "WorldDirection"
      [] OTHER -> ""

\* DxfError::UnexpectedCode(pair.code, pair.offset): the error carries the
\* code of the pair that was met (lines 168, 177).
UnexpectedCode(code) == ErrResult("UnexpectedCode", ToString(code))

XReturn(res) ==
    /\ xpc' = "returned"
    /\ xresult' = res

\* A complete item goes to the innermost ControlGroup being read (line 134),
\* or to xdata.items when there is none (line 80).
XPush(item) ==
    /\ IF xstack = <<>>
       THEN /\ xitems' = Append(xitems, item)
            /\ xpc' = "loop"
            /\ UNCHANGED xstack
       ELSE /\ xstack' = [xstack EXCEPT ![Len(xstack)] = Append(@, item)]
            /\ xpc' = "group"
            /\ UNCHANGED xitems
    /\ xpend' = NoPending
    /\ UNCHANGED xresult

\* XDataItem::read_item on `pair`, up to its next call of iter.next()
\* (the match of lines 111-169).
XReadItem(pair) ==
    IF ScalarTag(pair.code) # ""
    THEN XPush(XDataItem(ScalarTag(pair.code), <<ReadValue(pair)>>, <<>>))
    ELSE IF pair.code = XDATA_CONTROLGROUP
    THEN /\ xstack' = Append(xstack, <<>>)
         /\ xpc' = "group"
         /\ UNCHANGED <<xitems, xpend, xresult>>
    ELSE IF TripleTag(pair.code) # ""
    THEN /\ xpend' = [tag |-> TripleTag(pair.code), code |-> pair.code,
                      vals |-> <<pair.value>>]
         /\ xpc' = "double"
         /\ UNCHANGED <<xitems, xstack, xresult>>
    ELSE /\ XReturn(UnexpectedCode(pair.code))
         /\ UNCHANGED <<xitems, xstack, xpend>>

\* One turn of the loop of XData::read_item (lines 66-81), up to the next call
\* of iter.next() inside XDataItem::read_item.
XDataReadItem ==
    /\ xpc = "loop"
    /\ \E item \in XDataPairs \cup {NoneItem, ErrItem} :
         /\ StreamNext(item, XDataPairs, MaxXPairs)
         /\ IF IsPair(item) /\ item.code = 0
            THEN /\ StreamTake(item, <<item>>)
                 /\ XReturn(OkResult)
                 /\ UNCHANGED <<xitems, xstack, xpend>>
            ELSE IF IsPair(item)
            THEN /\ StreamTake(item, <<>>)
                 /\ IF item.code = XDATA_APPLICATIONNAME \/ item.code < XDATA_STRING
                    THEN /\ XReturn(OkResult)
                         /\ UNCHANGED <<xitems, xstack, xpend>>
                    ELSE XReadItem(item)
            ELSE IF item = ErrItem
            THEN /\ StreamTake(item, <<>>)
                 /\ XReturn(ErrResult("Io", ""))
                 /\ UNCHANGED <<xitems, xstack, xpend>>
            ELSE /\ StreamTake(item, <<>>)
                 /\ XReturn(OkResult)
                 /\ UNCHANGED <<xitems, xstack, xpend>>
    /\ UNCHANGED <<codecVars, loadVars, entVars, wrVars>>

\* A ControlGroup loop that would hand a pair with a code below 1000 back to
\* the stream before failing, as XData::read_item does for a 0 pair.
XDataGroupPuttingBack ==
    /\ xpc = "group"
    /\ \E item \in XDataPairs \cup {NoneItem, ErrItem} :
         /\ StreamNext(item, XDataPairs, MaxXPairs)
         /\ IF IsPair(item) /\ item.code < XDATA_STRING
            THEN /\ StreamTake(item, <<item>>)
                 /\ XReturn(ErrResult("UnexpectedCodePair", "expected XDATA item"))
                 /\ UNCHANGED <<xitems, xstack, xpend>>
            ELSE /\ StreamTake(item, <<>>)
                 /\ IF IsPair(item) /\ item.code = XDATA_CONTROLGROUP /\ item.value = "}"
                    THEN LET group == XDataItem("ControlGroup", <<>>, xstack[Len(xstack)])
                             outer == SubSeq(xstack, 1, Len(xstack) - 1)
                         IN /\ IF outer = <<>>
                               THEN /\ xitems' = Append(xitems, group)
                                    /\ xpc' = "loop"
                                    /\ xstack' = outer
                               ELSE /\ xstack' = [outer EXCEPT ![Len(outer)] = Append(@, group)]
                                    /\ xpc' = "group"
                                    /\ UNCHANGED xitems
                            /\ UNCHANGED <<xpend, xresult>>
                    ELSE IF IsPair(item) THEN XReadItem(item)
                    ELSE IF item = ErrItem
                    THEN /\ XReturn(ErrResult("Io", ""))
                         /\ UNCHANGED <<xitems, xstack, xpend>>
                    ELSE /\ XReturn(ErrResult("UnexpectedEndOfInput", ""))
                         /\ UNCHANGED <<xitems, xstack, xpend>>
    /\ UNCHANGED <<codecVars, loadVars, entVars, wrVars>>

\* One turn of the loop of a ControlGroup (lines 115-135).
XDataGroup ==
    /\ xpc = "group"
    /\ \E item \in XDataPairs \cup {NoneItem, ErrItem} :
         /\ StreamNext(item, XDataPairs, MaxXPairs)
         /\ StreamTake(item, <<>>)
         /\ IF IsPair(item) /\ item.code < XDATA_STRING
            THEN /\ XReturn(ErrResult("UnexpectedCodePair", "expected XDATA item"))
                 /\ UNCHANGED <<xitems, xstack, xpend>>
            ELSE IF IsPair(item) /\ item.code = XDATA_CONTROLGROUP /\ item.value = "}"
            THEN LET group == XDataItem("ControlGroup", <<>>, xstack[Len(xstack)])
                     outer == SubSeq(xstack, 1, Len(xstack) - 1)
                 IN /\ IF outer = <<>>
                       THEN /\ xitems' = Append(xitems, group)
                            /\ xpc' = "loop"
                            /\ xstack' = outer
                       ELSE /\ xstack' = [outer EXCEPT ![Len(outer)] = Append(@, group)]
                            /\ xpc' = "group"
                            /\ UNCHANGED xitems
                    /\ UNCHANGED <<xpend, xresult>>
            ELSE IF IsPair(item) THEN XReadItem(item)
            ELSE IF item = ErrItem
            THEN /\ XReturn(ErrResult("Io", ""))
                 /\ UNCHANGED <<xitems, xstack, xpend>>
            ELSE /\ XReturn(ErrResult("UnexpectedEndOfInput", ""))
                 /\ UNCHANGED <<xitems, xstack, xpend>>
    /\ UNCHANGED <<codecVars, loadVars, entVars, wrVars>>

\* A read_double that would report the code it expected instead of the code
\* of the pair it met.
XDataReadDoubleExpected ==
    /\ xpc = "double"
    /\ \E item \in XDataPairs \cup {NoneItem, ErrItem} :
         /\ StreamNext(item, XDataPairs, MaxXPairs)
         /\ StreamTake(item, <<>>)
         /\ IF IsPair(item) /\ item.code = xpend.code
            THEN IF Len(xpend.vals) = 2
                 THEN XPush(XDataItem(xpend.tag, Append(xpend.vals, item.value), <<>>))
                 ELSE /\ xpend' = [xpend EXCEPT !.vals = Append(@, item.value)]
                      /\ UNCHANGED <<xpc, xitems, xstack, xresult>>
            ELSE /\ XReturn(IF IsPair(item) THEN UnexpectedCode(xpend.code)
                            ELSE IF item = ErrItem THEN ErrResult("Io", "")
                            ELSE ErrResult("UnexpectedEndOfInput", ""))
                 /\ UNCHANGED <<xitems, xstack, xpend>>
    /\ UNCHANGED <<codecVars, loadVars, entVars, wrVars>>

\* read_double (lines 171-181), for the second and the third value of a
\* three-real item (lines 145-162, 182-209).
XDataReadDouble ==
    /\ xpc = "double"
    /\ \E item \in XDataPairs \cup {NoneItem, ErrItem} :
         /\ StreamNext(item, XDataPairs, MaxXPairs)
         /\ StreamTake(item, <<>>)
         /\ IF IsPair(item) /\ item.code = xpend.code
            THEN IF Len(xpend.vals) = 2
                 THEN XPush(XDataItem(xpend.tag, Append(xpend.vals, item.value), <<>>))
                 ELSE /\ xpend' = [xpend EXCEPT !.vals = Append(@, item.value)]
                      /\ UNCHANGED <<xpc, xitems, xstack, xresult>>
            ELSE /\ XReturn(IF IsPair(item) THEN UnexpectedCode(item.code)
                            ELSE IF item = ErrItem THEN ErrResult("Io", "")
                            ELSE ErrResult("UnexpectedEndOfInput", ""))
                 /\ UNCHANGED <<xitems, xstack, xpend>>
    /\ UNCHANGED <<codecVars, loadVars, entVars, wrVars>>

\* The caller of XData::read_item, once it has returned Ok, calls next() on
\* the same stream.
CallerNext ==
    /\ xpc = "returned"
    /\ xresult = OkResult
    /\ \E item \in XDataPairs \cup {NoneItem, ErrItem} :
         /\ StreamNext(item, XDataPairs, MaxXPairs)
         /\ StreamTake(item, <<>>)
    /\ xpc' = "caller_done"
    /\ UNCHANGED <<xitems, xstack, xpend, xresult, codecVars, loadVars, entVars, wrVars>>

\* The caller has consumed 1001/<application name> and calls XData::read_item
\* (lines 62-65).
InitXData ==
    /\ CodecIdle /\ StreamIdle /\ LoadIdle /\ EntIdle /\ WrIdle
    /\ pc = "xdata"
    /\ xpc = "loop"
    /\ xitems = <<>>
    /\ xstack = <<>>
    /\ xpend = NoPending
    /\ xresult = NoResult

NextXData == XDataReadItem \/ XDataGroup \/ XDataReadDouble \/ CallerNext
SpecXData == InitXData /\ [][NextXData]_vars

----------------------------------------------------------------------------
(* XData::write and XDataItem::write *)

\* AcadVersion, in the order of its variants.
AcadVersions == <<"R12", "R13", "R14", "R2000", "R2004">>

VersionRank(v) == CHOOSE i \in 1..Len(AcadVersions) : AcadVersions[i] = v

\* version >= other
VersionAtLeast(v, other) == VersionRank(v) >= VersionRank(other)

\* The group code XDataItem::write gives each variant (lines 214-272).
TagCode(tag) ==
    CASE tag = "Str" -> XDATA_STRING
      [] tag = "ControlGroup" -> XDATA_CONTROLGROUP
      [] tag = "LayerName" -> XDATA_LAYER
      [] tag = "BinaryData" -> XDATA_BINARYDATA
      [] tag = "Handle" -> XDATA_HANDLE
      [] tag = "ThreeReals" -> XDATA_THREEREALS
      [] tag = "WorldSpacePosition" -> XDATA_WORLDSPACEPOSITION
      [] tag = "WorldSpaceDisplacement" -> XDATA_WORLDSPACEDISPLACEMENT
      [] tag = "WorldDirection" -> XDATA_WORLDDIRECTION
      [] tag = "Real" -> XDATA_REAL
      [] tag = "Distance" -> XDATA_DISTANCE
      [] tag = "ScaleFactor" -> XDATA_SCALEFACTOR
      [] tag = "Integer" -> XDATA_INTEGER
      [] tag = "Long" -> XDATA_LONG

\* The value of the pair a one-pair item is written as.
WriteValue(item) ==
    IF item.tag = "Handle" THEN FormatHandle(item.vals[1])
    ELSE IF item.tag = "BinaryData" THEN FormatHexString(item.vals[1])
    ELSE item.vals[1]

\* The pair after the items of a ControlGroup, written as another opening.
GroupCloseAsOpen == Pair(XDATA_CONTROLGROUP, "{")

\* The pairs around the items of a ControlGroup (lines 218, 222).
GroupOpen == Pair(XDATA_CONTROLGROUP, "{")
GroupClose == Pair(XDATA_CONTROLGROUP, "}")

\* XDataItem::write: the pairs of one item, and of a list of items in order.
RECURSIVE XItemWrite(_), XItemsWrite(_)
XItemWrite(item) ==
    IF item.tag = "ControlGroup"
    THEN <<GroupOpen>> \o XItemsWrite(item.items) \o <<GroupClose>>
    ELSE IF Len(item.vals) = 3
    THEN <<Pair(TagCode(item.tag), item.vals[1]),
           Pair(TagCode(item.tag), item.vals[2]),
           Pair(TagCode(item.tag), item.vals[3])>>
    ELSE <<Pair(TagCode(item.tag), WriteValue(item))>>

XItemsWrite(items) ==
    IF items = <<>> THEN <<>>
    ELSE XItemWrite(Head(items)) \o XItemsWrite(Tail(items))

\* XData::write that writes at every version.
XDataWriteOutAnyVersion(v, application_name, items) ==
    <<Pair(XDATA_APPLICATIONNAME, application_name)>> \o XItemsWrite(items)

\* The pairs XData::write hands to the writer when no write fails.
XDataWriteOut(v, application_name, items) ==
    IF VersionAtLeast(v, "R2000")
    THEN <<Pair(XDATA_APPLICATIONNAME, application_name)>> \o XItemsWrite(items)
    ELSE <<>>

\* XData::write on the XData that XData::read_item returned: the pairs are
\* written in order until a write_code_pair fails, if one does.
XDataWrite ==
    /\ wpc = "first_read"
    /\ xpc = "returned"
    /\ xresult = OkResult
    /\ LET full == XDataWriteOut(version, app, xitems) IN
       \E n \in 0..Len(full) :
         /\ out' = SubSeq(full, 1, n)
         /\ wresult' = IF n = Len(full) THEN OkResult ELSE ErrResult("Io", "")
    /\ first_items' = xitems
    /\ wpc' = "written"
    /\ UNCHANGED <<version, handles_enabled, write_handles, wh_log, wi, app>>
    /\ UNCHANGED <<codecVars, streamVars, loadVars, entVars, xdVars>>

\* The pairs written are read again: the caller consumes 1001/<application
\* name> and calls XData::read_item on the rest.
ReadBack ==
    /\ wpc = "written"
    /\ wresult = OkResult
    /\ out # <<>>
    /\ Head(out).code = XDATA_APPLICATIONNAME
    /\ wpc' = "read_back"
    /\ pb' = <<>>
    /\ cur' = Head(out)
    /\ feed' = Tail(out)
    /\ at_end' = FALSE
    /\ xpc' = "loop"
    /\ xitems' = <<>>
    /\ xstack' = <<>>
    /\ xpend' = NoPending
    /\ xresult' = NoResult
    /\ UNCHANGED <<nread, end_state, top_eof, gstate>>
    /\ UNCHANGED <<out, version, handles_enabled, write_handles, wresult, wh_log,
                   wi, app, first_items>>
    /\ UNCHANGED <<codecVars, loadVars, entVars>>

\* XData is read from any stream, written, and read again.
InitXRoundTrip ==
    /\ CodecIdle /\ StreamIdle /\ LoadIdle /\ EntIdle
    /\ pc = "xdata"
    /\ xpc = "loop"
    /\ xitems = <<>>
    /\ xstack = <<>>
    /\ xpend = NoPending
    /\ xresult = NoResult
    /\ wpc = "first_read"
    /\ out = <<>>
    /\ version \in {"R14", "R2000", "R2004"}
    /\ handles_enabled = FALSE
    /\ write_handles = FALSE
    /\ wresult = NoResult
    /\ wh_log = <<>>
    /\ wi = 0
    /\ app = "ACAD"
    /\ first_items = <<>>

NextXRoundTrip ==
    XDataReadItem \/ XDataGroup \/ XDataReadDouble \/ XDataWrite \/ ReadBack
SpecXRoundTrip == InitXRoundTrip /\ [][NextXRoundTrip]_vars

----------------------------------------------------------------------------
(* Drawing::save, Drawing::write_tables and Drawing::write_entities *)

\* What the delegated writers hand to the writer: Header::write, the table
\* writers (write_tables of the tables module) and Entity::write.
HeaderOut == <<Pair(0, "SECTION"), Pair(2, "HEADER"), Pair(0, "ENDSEC")>>
TablesOut == <<Pair(0, "TABLE"), Pair(0, "ENDTAB")>>
EntityOut(e) == <<Pair(0, e.kind)>>

\* write_handles taken from the version alone.
ComputeWriteHandlesVersionOnly == VersionAtLeast(version, "R13")

\* let write_handles = ... (line 98)
ComputeWriteHandles == VersionAtLeast(version, "R13") \/ handles_enabled

\* try!(writer.write_code_pair(pair)), then on to position next.
WriteCodePair(ok, pair, next) ==
    IF ok
    THEN /\ out' = Append(out, pair)
         /\ wpc' = next
         /\ UNCHANGED wresult
    ELSE /\ wpc' = "saved"
         /\ wresult' = ErrResult("Io", "")
         /\ UNCHANGED out

\* try!(delegate): its pairs are written in order until a write fails, if one
\* does, then on to position next.
WriteDelegate(n, pairs, next) ==
    /\ out' = out \o SubSeq(pairs, 1, n)
    /\ IF n = Len(pairs)
       THEN wpc' = next /\ UNCHANGED wresult
       ELSE wpc' = "saved" /\ wresult' = ErrResult("Io", "")

\* save up to the call of write_tables (lines 96-98).
SaveHeader ==
    /\ wpc = "save_header"
    /\ \E n \in 0..Len(HeaderOut) : WriteDelegate(n, HeaderOut, "tables_section")
    /\ write_handles' = IF wpc' = "saved" THEN write_handles ELSE ComputeWriteHandles
    /\ UNCHANGED <<version, handles_enabled, wh_log, wi, app, first_items>>
    /\ UNCHANGED <<codecVars, streamVars, loadVars, entVars, xdVars>>

\* One try! of write_tables (lines 118-121).
WriteTables ==
    /\ wpc \in {"tables_section", "tables_name", "tables_body", "tables_endsec"}
    /\ IF wpc = "tables_body"
       THEN /\ \E n \in 0..Len(TablesOut) : WriteDelegate(n, TablesOut, "tables_endsec")
            /\ wh_log' = Append(wh_log, write_handles)
       ELSE /\ \E ok \in BOOLEAN :
                 CASE wpc = "tables_section" ->
                        WriteCodePair(ok, Pair(0, "SECTION"), "tables_name")
                   [] wpc = "tables_name" ->
                        WriteCodePair(ok, Pair(2, "TABLES"), "tables_body")
                   [] wpc = "tables_endsec" ->
                        WriteCodePair(ok, Pair(0, "ENDSEC"), "entities_section")
            /\ UNCHANGED wh_log
    /\ UNCHANGED <<version, handles_enabled, write_handles, wi, app, first_items>>
    /\ UNCHANGED <<codecVars, streamVars, loadVars, entVars, xdVars>>

\* One try! of write_entities (lines 126-132).
WriteEntities ==
    /\ wpc \in {"entities_section", "entities_name", "entities_body"}
    /\ IF wpc = "entities_body" /\ wi < Len(entities)
       THEN /\ \E n \in 0..1 :
                 WriteDelegate(n, EntityOut(entities[wi + 1]), "entities_body")
            /\ wh_log' = Append(wh_log, write_handles)
            /\ wi' = wi + 1
       ELSE /\ \E ok \in BOOLEAN :
                 CASE wpc = "entities_section" ->
                        WriteCodePair(ok, Pair(0, "SECTION"), "entities_name")
                   [] wpc = "entities_name" ->
                        WriteCodePair(ok, Pair(2, "ENTITIES"), "entities_body")
                   [] wpc = "entities_body" ->
                        WriteCodePair(ok, Pair(0, "ENDSEC"), "eof")
            /\ UNCHANGED <<wh_log, wi>>
    /\ UNCHANGED <<version, handles_enabled, write_handles, app, first_items>>
    /\ UNCHANGED <<codecVars, streamVars, loadVars, entVars, xdVars>>

\* The last write of save, and its return (lines 102-103).
SaveEof ==
    /\ wpc = "eof"
    /\ \E ok \in BOOLEAN :
         /\ out' = IF ok THEN Append(out, Pair(0, "EOF")) ELSE out
         /\ wresult' = IF ok THEN OkResult ELSE ErrResult("Io", "")
    /\ wpc' = "saved"
    /\ UNCHANGED <<version, handles_enabled, write_handles, wh_log, wi, app,
                   first_items>>
    /\ UNCHANGED <<codecVars, streamVars, loadVars, entVars, xdVars>>

\* The entity lists save is run on.
SaveEntityLists ==
    UNION {{[i \in 1..k |-> Entity(f[i], FALSE, i)] : f \in [1..k -> {"LINE", "CIRCLE"}]}
           : k \in 0..MaxSaveEnts}

\* save on a Drawing, with a writer any write of which may fail.
InitSave ==
    /\ CodecIdle /\ StreamIdle /\ LoadIdle /\ XdIdle
    /\ pc = "save"
    /\ entities \in SaveEntityLists
    /\ ent_pb = <<>>
    /\ raw = <<>>
    /\ ent_end = FALSE
    /\ eiter = "idle"
    /\ yielded = <<>>
    /\ parent = NoneEnt
    /\ epc = "outer"
    /\ wpc = "save_header"
    /\ out = <<>>
    /\ version \in {"R12", "R13", "R2000"}
    /\ handles_enabled \in BOOLEAN
    /\ write_handles = FALSE
    /\ wresult = NoResult
    /\ wh_log = <<>>
    /\ wi = 0
    /\ app = ""
    /\ first_items = <<>>

NextSave == SaveHeader \/ WriteTables \/ WriteEntities \/ SaveEof
SpecSave == InitSave /\ [][NextSave]_vars

----------------------------------------------------------------------------
(* Claims about the string codecs *)

\* C1: for every string s of BMP scalar values, ASCII strings holding a
\* backslash included, un_escape_ascii_to_unicode(escape_unicode_to_ascii(s))
\* is s.
C1_UnicodeRoundTrip ==
    (stage = "unicode_unescaped" /\ IsBMP(val)) => unescaped = val

\* What C5 says escape_control_characters emits for one code point.
C5_ExpectedChar(c) ==
    IF c <= 31 THEN <<CARET, 64 + c>>
    ELSE IF c = 94 THEN <<CARET, SPACE>>
    ELSE <<c>>

RECURSIVE C5_Expected(_)
C5_Expected(s) ==
    IF s = <<>> THEN <<>> ELSE C5_ExpectedChar(Head(s)) \o C5_Expected(Tail(s))

\* C5: escape_control_characters escapes a code point c, as '^' followed by
\* the character 0x40 + c (a space for '^'), if and only if c <= 0x1F or
\* c = 0x5E; every other code point, those >= 0x80 included, is emitted
\* verbatim.
C5_EscapesOnlyControlAndCaret ==
    stage = "caret_escaped" => escaped = C5_Expected(val)

\* C6: for every string s of characters in 0x00..0x7F,
\* un_escape_string(escape_control_characters(s)) is s.
C6_CaretRoundTrip ==
    (stage = "caret_unescaped" /\ IsAscii(val)) => unescaped = val

\* An ASCII string holding a '^' and the control character 0x1E has made the
\* round trip.
C6_Witness ==
    /\ stage = "caret_unescaped"
    /\ IsAscii(val)
    /\ \E i, j \in 1..Len(val) : val[i] = CARET /\ val[j] = 30
    /\ Len(escaped) > Len(val)
    /\ unescaped = val

----------------------------------------------------------------------------
(* Claims about the entity folding *)

\* read_entities has returned: its outer loop met None.
ReadEntitiesReturned == pc # "entities" /\ ent_end

\* The ids of the top-level entities of the given kinds.
TopLevelIds(kinds) ==
    {entities[i].id : i \in {n \in 1..Len(entities) : entities[n].kind \in kinds}}

\* The ids of the children the top-level entities hold.
ChildIds ==
    UNION {{entities[i].attributes[n].id : n \in 1..Len(entities[i].attributes)}
           \cup {entities[i].vertices[n].id : n \in 1..Len(entities[i].vertices)}
           : i \in 1..Len(entities)}

\* s[i] is in the run of Attributes directly after an Insert with
\* has_attributes, or in the run of Vertices directly after a Polyline.
InRun(s, i) ==
    \/ /\ s[i].kind = "Attribute"
       /\ \E j \in 1..(i - 1) :
            /\ s[j].kind = "Insert" /\ s[j].has_attributes
            /\ \A k \in (j + 1)..i : s[k].kind = "Attribute"
    \/ /\ s[i].kind = "Vertex"
       /\ \E j \in 1..(i - 1) :
            /\ s[j].kind = "Polyline"
            /\ \A k \in (j + 1)..i : s[k].kind = "Vertex"

\* The Attributes and Vertices of s that are in no such run.
Strays(s) ==
    {s[i].id : i \in {n \in 1..Len(s) :
                        s[n].kind \in {"Attribute", "Vertex"} /\ ~InRun(s, n)}}

Gathered(s) == {s[i].id : i \in {n \in 1..Len(s) : InRun(s, n)}}

\* C2, as stated: after read_entities, for every input sequence of raw
\* entities, no top-level entity is an Attribute or a Vertex.
C2_NoTopLevelChild ==
    ReadEntitiesReturned => TopLevelIds({"Attribute", "Vertex"}) = {}

\* C2, amended: after read_entities, the top-level Attributes and Vertices are
\* exactly those of the input that are not in the run of Attributes directly
\* after an Insert with has_attributes, nor in the run of Vertices directly
\* after a Polyline; those of such a run appear only inside their parent.
C2_OnlyStraysTopLevel ==
    ReadEntitiesReturned =>
        /\ TopLevelIds({"Attribute", "Vertex"}) = Strays(yielded)
        /\ ChildIds = Gathered(yielded)

\* An Insert has gathered two Attributes and a stray Vertex is top-level.
C2_Witness ==
    /\ ReadEntitiesReturned
    /\ \E i \in 1..Len(entities) :
         entities[i].kind = "Insert" /\ Len(entities[i].attributes) = 2
    /\ \E i \in 1..Len(entities) : entities[i].kind = "Vertex"

\* C4: a Seqend that does not directly follow a folded Insert or Polyline is
\* discarded; with the one that does being swallowed, no Seqend is ever a
\* top-level entity.
C4_NoTopLevelSeqend ==
    \A i \in 1..Len(entities) : entities[i].kind # "Seqend"

----------------------------------------------------------------------------
(* Claims about the XDATA reader *)

\* A pair that ends the items of an XDATA block without being a 0 pair.
IsBoundary(item) ==
    /\ IsPair(item)
    /\ item.code # 0
    /\ (item.code = XDATA_APPLICATIONNAME \/ item.code < XDATA_STRING)

\* C3: when XData::read_item meets a pair with code 1001 or with a non-zero
\* code below 1000, it returns Ok with the items gathered so far and leaves
\* that pair in the stream: the caller's next call of next() yields that pair.
C3_BoundaryPairLeft ==
    [][/\ (xpc = "loop" /\ IsBoundary(cur'))
            => /\ xpc' = "returned"
               /\ xresult' = OkResult
               /\ xitems' = xitems
               /\ pb' = <<cur'>>
       /\ (xpc = "returned" /\ IsBoundary(cur) /\ xpc' = "caller_done")
            => cur' = cur]_vars

----------------------------------------------------------------------------
(* Claims about the section reader *)

\* The pairs consumed, net of the one put back.
Net == nread - Len(pb)

\* The entities consumed, net of the one put back.
EntNet == Len(yielded) - Len(ent_pb)

\* C7: when the pairs run out in the Outer state load returns Ok, with the
\* drawing built so far; when they run out in any other state load returns
\* UnexpectedEndOfInput.
C7_EndOfInput ==
    /\ []((pc = "done" /\ at_end) =>
            IF end_state = "outer" THEN load_result = OkResult
            ELSE load_result = ErrResult("UnexpectedEndOfInput", ""))
    /\ [][(at_end' /\ end_state' = "outer")
            => (header' = header /\ entities' = entities)]_vars

\* The pairs ran out right after the 0/ENDSEC of a section and load returned Ok.
C7_Witness ==
    /\ pc = "done"
    /\ at_end
    /\ end_state = "outer"
    /\ Len(sections) >= 1
    /\ load_result = OkResult

\* C8: in a section of unknown name every pair up to the first 0/ENDSEC is
\* discarded, that 0/ENDSEC is put back and then consumed as the end of the
\* section, and the drawing is not changed; a stream made only of well-formed
\* sections of unknown name, closed by 0/EOF, loads as the empty Drawing.
C8_UnknownSectionSwallowed ==
    /\ [][/\ pc = "swallow_section"
               => (header' = header /\ entities' = entities)
          /\ (pc = "swallow_section" /\ IsPair(cur') /\ cur' # Pair(0, "ENDSEC"))
               => (pc' = "swallow_section" /\ pb' = <<>>)
          /\ (pc = "swallow_section" /\ cur' = Pair(0, "ENDSEC"))
               => (pc' = "expect_endsec" /\ pb' = <<cur'>>)
          /\ (pc = "expect_endsec" /\ pb = <<Pair(0, "ENDSEC")>>)
               => (pc' = "outer" /\ pb' = <<>>
                   /\ header' = header /\ entities' = entities)]_vars
    /\ [](gstate = "eof" => pc \in {"load_eof", "done"})
    /\ []((pc = "done" /\ gstate = "eof")
            => (load_result = OkResult /\ header = 0 /\ entities = <<>>))

\* Two sections of unknown name, one of them with a body, then 0/EOF.
C8_Witness ==
    /\ pc = "done"
    /\ gstate = "eof"
    /\ Len(sections) = 2
    /\ nread = 8
    /\ load_result = OkResult

\* C9: in the Outer state a pair other than 0/SECTION and 0/EOF, after
\* 0/SECTION a pair that is not a code-2 pair, and after a section body a pair
\* that is not 0/ENDSEC each make load fail with UnexpectedCodePair.
C9_UnexpectedPairFails ==
    [][/\ (pc = "outer" /\ IsPair(cur')
           /\ cur' \notin {Pair(0, "SECTION"), Pair(0, "EOF")})
            => (pc' = "done" /\ load_result'.kind = "UnexpectedCodePair")
       /\ (pc = "section_name" /\ IsPair(cur') /\ cur'.code # 2)
            => (pc' = "done" /\ load_result'.kind = "UnexpectedCodePair")
       /\ (pc = "expect_endsec" /\ IsPair(cur') /\ cur' # Pair(0, "ENDSEC"))
            => (pc' = "done" /\ load_result'.kind = "UnexpectedCodePair")]_vars

\* After the body of a second section a pair that is not 0/ENDSEC was met.
C9_Witness ==
    /\ pc = "done"
    /\ Len(sections) = 2
    /\ IsPair(cur) /\ cur # Pair(0, "ENDSEC")
    /\ load_result = ErrResult("UnexpectedCodePair", "expected 0/ENDSEC")

\* C10: on every finite pair stream load returns; a turn of a loop that goes
\* on consumes one pair, or one entity, net of put-backs; load returns Ok when
\* read_sections met 0/EOF at the top of its loop or the pairs ran out there,
\* and an error otherwise.
C10_Terminates ==
    /\ <>(pc = "done")
    /\ [][/\ (pc \in {"swallow_section", "swallow_table", "header"} /\ pc' = pc)
               => Net' = Net + 1
          /\ (pc = "entities" /\ epc = "gather" /\ epc' = "gather"
              /\ parent' # parent)
               => EntNet' = EntNet + 1]_vars
    /\ [](pc = "outer" => (pb = <<>> /\ nread >= 3 * Len(sections)))
    /\ []((pc = "entities" /\ epc = "outer") => Len(entities) <= EntNet)
    /\ [](pc = "done" =>
            (load_result = OkResult <=> (top_eof \/ end_state = "outer")))

\* load has returned Ok after a TABLES section with one table.
C10_Witness ==
    /\ pc = "done"
    /\ load_result = OkResult
    /\ top_eof
    /\ sections = <<"TABLES">>
    /\ nread = 8

----------------------------------------------------------------------------
(* Claims about folding a folded list again *)

\* A gathering entity of s is directly followed by an entity its arm would
\* take: a child of its kind, or a Seqend.
HasAdjacentChild(s) ==
    \E i \in 1..(Len(s) - 1) :
        /\ IsGatherer(s[i])
        /\ s[i + 1].kind \in {ChildKind(s[i]), "Seqend"}

\* C11 (as stated): read_entities run on its own output, with no entity added,
\* yields the same list for every input sequence of raw entities.
C11_Idempotent ==
    ReadEntitiesReturned => read_entities(entities) = entities

\* C11 (amended): the list read_entities built is what the folding function
\* gives on the entities read, and folding that list again yields the same
\* list exactly when no Insert with has_attributes in it is directly followed
\* by an Attribute or a Seqend and no Polyline by a Vertex or a Seqend.
C11_IdempotentUnlessAdjacent ==
    ReadEntitiesReturned =>
        /\ entities = read_entities(yielded)
        /\ (read_entities(entities) = entities <=> ~HasAdjacentChild(entities))

\* A Polyline that gathered a Vertex, followed by another entity, folds again
\* to the same list.
C11_Witness ==
    /\ ReadEntitiesReturned
    /\ Len(entities) >= 2
    /\ \E i \in 1..Len(entities) : entities[i].vertices # <<>>
    /\ ~HasAdjacentChild(entities)
    /\ read_entities(entities) = entities

----------------------------------------------------------------------------
(* Claims about writing XDATA *)

\* C12: XData that XData::read_item returned, written at a version >= R2000
\* and read again after its leading 1001/<application name> pair, comes back
\* with the same application name and the same items, ControlGroups nested
\* as before.
C12_XDataRoundTrip ==
    (wpc = "read_back" /\ xpc = "returned") =>
        /\ VersionAtLeast(version, "R2000")
        /\ Head(out) = Pair(XDATA_APPLICATIONNAME, app)
        /\ xresult = OkResult
        /\ xitems = first_items

\* A ControlGroup holding binary data, which is written in upper case
\* whatever case it was read in, came back.
C12_Witness ==
    /\ wpc = "read_back"
    /\ xpc = "returned"
    /\ xitems = first_items
    /\ \E i \in 1..Len(xitems) :
         /\ xitems[i].tag = "ControlGroup"
         /\ xitems[i].items # <<>>
         /\ xitems[i].items[1].tag = "BinaryData"
    /\ \E k \in 1..Len(out) : out[k] = Pair(XDATA_BINARYDATA, "0A")

\* How many pairs the claim gives an item: one for a scalar, three for a
\* three-real, and two around the items of a ControlGroup.
RECURSIVE PairCount(_), PairCountAll(_)
PairCount(item) ==
    IF item.tag = "ControlGroup" THEN 2 + PairCountAll(item.items)
    ELSE IF item.tag \in {"ThreeReals", "WorldSpacePosition",
                          "WorldSpaceDisplacement", "WorldDirection"} THEN 3
    ELSE 1

PairCountAll(items) ==
    IF items = <<>> THEN 0 ELSE PairCount(Head(items)) + PairCountAll(Tail(items))

\* ps is what the claim says is emitted for item, and for items in order.
RECURSIVE EmitsItem(_, _), EmitsItems(_, _)
EmitsItem(item, ps) ==
    IF item.tag = "ControlGroup"
    THEN /\ Len(ps) >= 2
         /\ ps[1] = Pair(1002, "{")
         /\ ps[Len(ps)] = Pair(1002, "}")
         /\ EmitsItems(item.items, SubSeq(ps, 2, Len(ps) - 1))
    ELSE IF item.tag \in {"ThreeReals", "WorldSpacePosition",
                          "WorldSpaceDisplacement", "WorldDirection"}
    THEN /\ Len(ps) = 3
         /\ ps[1].code = TagCode(item.tag)
         /\ \A k \in 1..3 : ps[k].code = ps[1].code /\ ps[k].value = item.vals[k]
    ELSE /\ Len(ps) = 1
         /\ ps[1].code = TagCode(item.tag)
         /\ ps[1].value = WriteValue(item)

EmitsItems(items, ps) ==
    IF items = <<>> THEN ps = <<>>
    ELSE LET n == PairCount(Head(items)) IN
         /\ n <= Len(ps)
         /\ EmitsItem(Head(items), SubSeq(ps, 1, n))
         /\ EmitsItems(Tail(items), SubSeq(ps, n + 1, Len(ps)))

\* C17: XData::write emits nothing below R2000; from R2000 on it emits
\* 1001/<application name>, then the items in list order: one pair for a
\* scalar, three pairs of one code with x, y, z for a three-real, and
\* 1002/"{", the items, 1002/"}" for a ControlGroup.
C17_XDataWritten ==
    (wpc \in {"written", "read_back"}) =>
        /\ ~VersionAtLeast(version, "R2000") => (out = <<>> /\ wresult = OkResult)
        /\ (VersionAtLeast(version, "R2000") /\ wresult = OkResult) =>
             /\ out # <<>>
             /\ Head(out) = Pair(1001, app)
             /\ EmitsItems(first_items, Tail(out))

\* Items with a three-real among them were written at R2000.
C17_Witness ==
    /\ wpc = "written"
    /\ wresult = OkResult
    /\ version = "R2000"
    /\ Len(first_items) >= 2
    /\ \E i \in 1..Len(first_items) : first_items[i].tag = "ThreeReals"

----------------------------------------------------------------------------
(* Claims about save *)

RECURSIVE EntitiesOut(_)
EntitiesOut(es) ==
    IF es = <<>> THEN <<>> ELSE EntityOut(Head(es)) \o EntitiesOut(Tail(es))

\* The whole output the claim gives for the drawing.
SaveExpected ==
    HeaderOut
    \o <<Pair(0, "SECTION"), Pair(2, "TABLES")>> \o TablesOut \o <<Pair(0, "ENDSEC")>>
    \o <<Pair(0, "SECTION"), Pair(2, "ENTITIES")>> \o EntitiesOut(entities)
    \o <<Pair(0, "ENDSEC")>>
    \o <<Pair(0, "EOF")>>

IsPrefix(s, full) == Len(s) <= Len(full) /\ s = SubSeq(full, 1, Len(s))

\* C13: save writes the HEADER output, the TABLES section, the ENTITIES section
\* with every top-level entity in list order, then 0/EOF and nothing more; the
\* table writers and every entity are given the same write_handles, which is
\* (version >= R13 or handles_enabled); when a step fails save returns the
\* error and writes nothing further, 0/EOF included.
C13_SaveOrder ==
    /\ IsPrefix(out, SaveExpected)
    /\ \A k \in 1..Len(wh_log) :
         wh_log[k] = (VersionAtLeast(version, "R13") \/ handles_enabled)
    /\ (wpc = "saved" /\ wresult = OkResult) =>
         /\ out = SaveExpected
         /\ Len(wh_log) = 1 + Len(entities)
    /\ (wpc = "saved" /\ wresult # OkResult) =>
         /\ wresult = ErrResult("Io", "")
         /\ out # SaveExpected
         /\ \A k \in 1..Len(out) : out[k] # Pair(0, "EOF")
    /\ (wpc # "saved") => wresult = NoResult

\* A drawing of two entities was saved with handles enabled below R13.
C13_Witness ==
    /\ wpc = "saved"
    /\ wresult = OkResult
    /\ Len(entities) = 2
    /\ version = "R12"
    /\ handles_enabled
    /\ Len(wh_log) = 3

----------------------------------------------------------------------------
(* Claims about the \U+XXXX codec *)

IsUpperHexDigit(c) == (c >= 48 /\ c <= 57) \/ (c >= 65 /\ c <= 70)

\* e is s with each code point below 0x80 in place and each other code point
\* c as seven characters: backslash, 'U', '+', and four uppercase hexadecimal
\* digits whose value is c.
RECURSIVE EscapedAsSevens(_, _)
EscapedAsSevens(s, e) ==
    IF s = <<>> THEN e = <<>>
    ELSE IF Head(s) < 128
    THEN e # <<>> /\ Head(e) = Head(s) /\ EscapedAsSevens(Tail(s), Tail(e))
    ELSE /\ Len(e) >= 7
         /\ SubSeq(e, 1, 3) = <<BACKSLASH, 85, 43>>
         /\ \A k \in 4..7 : IsUpperHexDigit(e[k])
         /\ DigitsValue(SubSeq(e, 4, 7), 0) = Head(s)
         /\ EscapedAsSevens(Tail(s), SubSeq(e, 8, Len(e)))

\* C14: escape_unicode_to_ascii leaves each code point below 0x80 unchanged
\* and in place, replaces each code point c >= 0x80 by backslash, 'U', '+'
\* and exactly four uppercase hexadecimal digits of c, and its output holds
\* only code points below 0x80.
C14_EscapesToSevenChars ==
    stage = "unicode_escaped" =>
        /\ EscapedAsSevens(val, escaped)
        /\ \A k \in 1..Len(escaped) : escaped[k] < 128

\* s holds the three characters backslash, 'U', '+' in a row.
HasEscapePrefix(s) ==
    \E i \in 1..(Len(s) - 2) : SubSeq(s, i, i + 2) = <<BACKSLASH, 85, 43>>

\* C15: un_escape_ascii_to_unicode returns unchanged every string that holds
\* no backslash, 'U', '+' in a row, wherever its backslashes stand, the last
\* six characters of the string included.
C15_VerbatimWithoutPrefix ==
    (stage = "unicode_unescaped_direct" /\ ~HasEscapePrefix(val)) => unescaped = val

----------------------------------------------------------------------------
(* Claims about format_f64 *)

\* Where the first '.' of s stands.
DotAt(s) == CHOOSE p \in 1..Len(s) : s[p] = DOT /\ \A q \in 1..(p - 1) : s[q] # DOT

\* C16: format_f64 of a 12-fractional-digit rendering has exactly one '.',
\* at least one digit after it, the integer part of the rendering before it,
\* and no '0' at its end unless that '0' is the only fractional digit.
C16_FormatShape ==
    stage = "formatted" =>
        /\ Cardinality({p \in 1..Len(escaped) : escaped[p] = DOT}) = 1
        /\ LET p == DotAt(escaped) IN
           /\ p < Len(escaped)
           /\ \A q \in (p + 1)..Len(escaped) : escaped[q] \in FormatDigits
           /\ SubSeq(escaped, 1, p) = SubSeq(val, 1, p)
           /\ IsPrefix(SubSeq(escaped, 1, Len(escaped) - 1), val)
           /\ (escaped[Len(escaped)] = ZERO => Len(escaped) = p + 1)

\* A number with a zero before the '.' and zeros inside its fraction lost its
\* trailing zeros only.
C16_Witness ==
    /\ stage = "formatted"
    /\ val[2] = ZERO /\ val[3] = DOT
    /\ val[4] = ZERO
    /\ Len(escaped) = 5
    /\ escaped[5] # ZERO

----------------------------------------------------------------------------
(* Claims about the rules INSERT and POLYLINE *)

\* How many entities of the kind directly follow s[i].
RunCount(s, i, kind) ==
    CHOOSE n \in 0..(Len(s) - i) :
        /\ \A k \in 1..n : s[i + k].kind = kind
        /\ (i + n + 1 <= Len(s)) => s[i + n + 1].kind # kind

Children(e, kind) == IF kind = "Attribute" THEN e.attributes ELSE e.vertices

\* The entity read as the i-th is one top-level entity that holds, after the
\* children it held, the run of entities of the kind that followed it; one
\* Seqend after the run is top-level nowhere; and the entity after the run,
\* or after that Seqend, is the top-level entity next to it.
RuleGathers(i, kind) ==
    LET n == RunCount(yielded, i, kind)
        after == i + n + 1
        swallowed == after <= Len(yielded) /\ yielded[after].kind = "Seqend"
        nxt == IF swallowed THEN after + 1 ELSE after
        js == {j \in 1..Len(entities) : entities[j].id = yielded[i].id}
    IN /\ Cardinality(js) = 1
       /\ LET j == CHOOSE x \in js : TRUE IN
          /\ entities[j].kind = yielded[i].kind
          /\ Children(entities[j], kind)
               = Children(yielded[i], kind) \o SubSeq(yielded, i + 1, i + n)
          /\ IF nxt <= Len(yielded)
             THEN j < Len(entities) /\ entities[j + 1].id = yielded[nxt].id
             ELSE j = Len(entities)
       /\ swallowed =>
            \A j \in 1..Len(entities) : entities[j].id # yielded[after].id

\* The entity read as the i-th is top-level unchanged, and so is the entity
\* read after it when that is an Attribute.
RuleKeeps(i) ==
    \E j \in 1..Len(entities) :
        /\ entities[j] = yielded[i]
        /\ (i < Len(yielded)) =>
             /\ j < Len(entities)
             /\ entities[j + 1].id = yielded[i + 1].id
             /\ (yielded[i + 1].kind = "Attribute" => entities[j + 1] = yielded[i + 1])

\* C18: rule INSERT.  An Insert with has_attributes takes the whole run of
\* Attributes that directly follows it, in order; the entity ending the run is
\* put back; one Seqend directly after the run is consumed; the Insert is then
\* pushed as one top-level entity.  An Insert without has_attributes is pushed
\* unchanged and the Attributes after it stay top-level.
C18_RuleInsert ==
    ReadEntitiesReturned =>
        \A i \in 1..Len(yielded) :
            yielded[i].kind = "Insert" =>
                IF yielded[i].has_attributes
                THEN RuleGathers(i, "Attribute")
                ELSE RuleKeeps(i)

\* An Insert took an Attribute, its Seqend was consumed, and the entity after
\* it was pushed next.
C18_Witness ==
    /\ ReadEntitiesReturned
    /\ Len(yielded) = 4
    /\ yielded[1].kind = "Insert" /\ yielded[1].has_attributes
    /\ yielded[2].kind = "Attribute"
    /\ yielded[3].kind = "Seqend"
    /\ Len(entities) = 2
    /\ entities[1].attributes = <<yielded[2]>>

\* C19: rule POLYLINE.  A Polyline takes the whole run of Vertices that
\* directly follows it, in order, after the vertices it already holds; the
\* entity ending the run is put back and is the next one the outer loop
\* processes; one Seqend directly after the run is consumed; the Polyline is
\* then pushed as one top-level entity.
C19_RulePolyline ==
    ReadEntitiesReturned =>
        \A i \in 1..Len(yielded) :
            yielded[i].kind = "Polyline" => RuleGathers(i, "Vertex")

\* A Polyline that held a Vertex took another, and the entity that ended the
\* run was pushed after it.
C19_Witness ==
    /\ ReadEntitiesReturned
    /\ Len(entities) >= 2
    /\ entities[1].kind = "Polyline"
    /\ Len(entities[1].vertices) = 2
    /\ entities[1].vertices[2] = yielded[2]
    /\ entities[2].id = yielded[3].id
    /\ yielded[3].kind # "Seqend"

----------------------------------------------------------------------------
(* Claims about the pushback buffers *)

\* C20: the one-item buffers of the pair stream and of the entity stream are
\* never overfilled.  An item is put back only into an empty buffer, right
\* after it was taken, so that no item put back is overwritten; both buffers
\* are empty when load starts and when load returns Ok.
C20_BuffersNeverOverfilled ==
    /\ [](/\ Len(pb) <= 1
          /\ Len(ent_pb) <= 1
          /\ (pc = "outer" /\ nread = 0 /\ ~at_end) => (pb = <<>> /\ ent_pb = <<>>)
          /\ (pc = "done" /\ load_result = OkResult) => (pb = <<>> /\ ent_pb = <<>>))
    /\ [][/\ (pb # <<>> /\ pb' # <<>>) => pb' = pb
          /\ (pb # <<>> /\ pb' = <<>>) => (cur' = pb[1] /\ nread' = nread)
          /\ (pb = <<>> /\ pb' # <<>>) => pb' = <<cur'>>
          /\ (ent_pb # <<>> /\ ent_pb' # <<>>) => ent_pb' = ent_pb
          /\ (ent_pb # <<>> /\ ent_pb' = <<>>) => yielded' = yielded
          /\ (ent_pb = <<>> /\ ent_pb' # <<>>) =>
               (yielded' # yielded /\ ent_pb' = <<yielded'[Len(yielded')]>>)]_vars

\* load returned Ok after an ENTITIES section in which a Polyline took a
\* Vertex: both streams had items put back on the way.
C20_Witness ==
    /\ pc = "done"
    /\ load_result = OkResult
    /\ top_eof
    /\ sections = <<"ENTITIES">>
    /\ Len(entities) = 1
    /\ entities[1].vertices # <<>>

----------------------------------------------------------------------------
(* C21: errors inside the body of a ControlGroup *)

\* The reader takes an item from the stream while a ControlGroup is open: by
\* the loop of a group, or by read_double for a three-real inside a group.
GroupBodyReads ==
    /\ xstack # <<>>
    /\ xpc \in {"group", "double"}
    /\ vars' # vars

\* C21, as stated: while the body of a ControlGroup is read, at any nesting
\* depth, a pair with a code below 1000 (0 included) makes the read fail with
\* UnexpectedCodePair("expected XDATA item") and the pair is not put back; the
\* end of the stream before the closing 1002/"}" makes it fail with
\* UnexpectedEndOfInput; no partial ControlGroup is returned.
C21_GroupBodyErrors ==
    /\ [][/\ (GroupBodyReads /\ IsPair(cur') /\ cur'.code < XDATA_STRING)
                => /\ xpc' = "returned"
                   /\ xresult' = ErrResult("UnexpectedCodePair", "expected XDATA item")
                   /\ pb' = <<>>
                   /\ xitems' = xitems
          /\ (GroupBodyReads /\ cur' = NoneItem)
                => /\ xpc' = "returned"
                   /\ xresult' = ErrResult("UnexpectedEndOfInput", "")
                   /\ xitems' = xitems]_vars
    /\ []((xpc = "returned" /\ xresult = OkResult) => (xstack = <<>> /\ xpend = NoPending))

\* C21, amended: while the body of a ControlGroup is read, at any nesting
\* depth, a pair with a code below 1000 (0 included) is not put back and makes
\* the read fail: with UnexpectedCodePair("expected XDATA item") when the loop
\* of the group meets it where an item or the closing 1002/"}" may start, and
\* with UnexpectedCode carrying the code of the pair when it is met as the
\* second or third value of a three-real item of the group.  The end of the
\* stream before the closing 1002/"}" fails with UnexpectedEndOfInput in both
\* places.  Nothing is added to the items in any of these cases, and a read
\* that returned Ok has closed every group it opened.
C21_GroupBodyErrorsByReader ==
    /\ [][/\ (GroupBodyReads /\ IsPair(cur') /\ cur'.code < XDATA_STRING)
                => /\ xpc' = "returned"
                   /\ xresult' =
                        IF xpc = "group"
                        THEN ErrResult("UnexpectedCodePair", "expected XDATA item")
                        ELSE ErrResult("UnexpectedCode", ToString(cur'.code))
                   /\ pb' = <<>>
                   /\ xitems' = xitems
          /\ (GroupBodyReads /\ cur' = NoneItem)
                => /\ xpc' = "returned"
                   /\ xresult' = ErrResult("UnexpectedEndOfInput", "")
                   /\ xitems' = xitems]_vars
    /\ []((xpc = "returned" /\ xresult = OkResult) => (xstack = <<>> /\ xpend = NoPending))

\* A pair with a code below 1000 has failed the read two groups deep.
C21_Witness ==
    /\ pc = "xdata"
    /\ xpc = "returned"
    /\ xresult = ErrResult("UnexpectedCodePair", "expected XDATA item")
    /\ Len(xstack) = 2
    /\ IsPair(cur) /\ cur.code < XDATA_STRING
    /\ pb = <<>>

----------------------------------------------------------------------------
(* C22: what opens and what closes a ControlGroup *)

\* XData::read_item or the ControlGroup loop takes its turn: cur' holds the
\* item it got from the stream.
ItemLoopReads == xpc \in {"loop", "group"} /\ vars' # vars

\* The items gathered so far with one more item at the innermost open group.
WithItem(stack, items, item) ==
    IF stack = <<>> THEN <<stack, Append(items, item)>>
    ELSE <<[stack EXCEPT ![Len(stack)] = Append(@, item)], items>>

\* C22: a ControlGroup is opened only by a 1002 pair whose value is "{", and
\* closed by the matching 1002/"}": a "{" opens a new innermost group, a "}"
\* inside a group closes the innermost group, which holds exactly the items
\* read since its "{" in order, and a 1002 pair with any other value than "{"
\* met outside a group opens no group.
C22_GroupOnlyOnBrace ==
    [][/\ (ItemLoopReads /\ cur' = Pair(XDATA_CONTROLGROUP, "{"))
            => /\ xstack' = Append(xstack, <<>>)
               /\ xitems' = xitems
       /\ (ItemLoopReads /\ xpc = "group" /\ cur' = Pair(XDATA_CONTROLGROUP, "}"))
            => <<xstack', xitems'>> =
                 WithItem(SubSeq(xstack, 1, Len(xstack) - 1), xitems,
                          XDataItem("ControlGroup", <<>>, xstack[Len(xstack)]))
       /\ (ItemLoopReads /\ xpc = "loop" /\ IsPair(cur')
              /\ cur'.code = XDATA_CONTROLGROUP /\ cur'.value # "{")
            => xstack' = <<>>]_vars

----------------------------------------------------------------------------
(* C23: the three-real items *)

\* The group codes of the items made of three reals.
ThreeRealCodes ==
    {XDATA_THREEREALS, XDATA_WORLDSPACEPOSITION, XDATA_WORLDSPACEDISPLACEMENT,
     XDATA_WORLDDIRECTION}

\* A pair that XDataItem::read_item is called on: any pair of a ControlGroup
\* loop but its closing one, and outside a group any pair that does not end
\* the items.
IsItemPair(item) ==
    /\ IsPair(item)
    /\ item.code >= XDATA_STRING
    /\ IF xpc = "group" THEN item # Pair(XDATA_CONTROLGROUP, "}")
       ELSE item.code # XDATA_APPLICATIONNAME

\* read_double takes its turn: cur' holds the item it got from the stream.
ReadDoubleReads == xpc = "double" /\ vars' # vars

\* C23: after a pair with code 1010, 1011, 1012 or 1013 the reader takes
\* exactly the two following pairs, each of which must carry the same code; the
\* item holds the three values in stream order.  A following pair with another
\* code fails the read with UnexpectedCode carrying the code of that pair, and
\* the end of the stream fails it with UnexpectedEndOfInput.
C23_ThreeReals ==
    [][/\ (ItemLoopReads /\ IsItemPair(cur') /\ cur'.code \in ThreeRealCodes)
            => /\ xpc' = "double"
               /\ xpend' = [tag |-> TripleTag(cur'.code), code |-> cur'.code,
                            vals |-> <<cur'.value>>]
               /\ <<xstack', xitems'>> = <<xstack, xitems>>
       /\ (ReadDoubleReads /\ IsPair(cur') /\ cur'.code = xpend.code
              /\ Len(xpend.vals) = 1)
            => /\ xpc' = "double"
               /\ xpend' = [xpend EXCEPT !.vals = <<xpend.vals[1], cur'.value>>]
               /\ <<xstack', xitems'>> = <<xstack, xitems>>
       /\ (ReadDoubleReads /\ IsPair(cur') /\ cur'.code = xpend.code
              /\ Len(xpend.vals) = 2)
            => /\ xpc' \in {"loop", "group"}
               /\ pb' = <<>>
               /\ <<xstack', xitems'>> =
                    WithItem(xstack, xitems,
                             XDataItem(TripleTag(xpend.code),
                                       <<xpend.vals[1], xpend.vals[2], cur'.value>>,
                                       <<>>))
       /\ (ReadDoubleReads /\ IsPair(cur') /\ cur'.code # xpend.code)
            => /\ xpc' = "returned"
               /\ xresult' = ErrResult("UnexpectedCode", ToString(cur'.code))
       /\ (ReadDoubleReads /\ cur' = NoneItem)
            => /\ xpc' = "returned"
               /\ xresult' = ErrResult("UnexpectedEndOfInput", "")
       /\ (xpc = "double") => (xpend.code \in ThreeRealCodes /\ Len(xpend.vals) \in {1, 2})
      ]_vars

\* A three-real item has been read whose three values tell the order, and the
\* stream has ended after the first value of a second one.
C23_Witness ==
    /\ pc = "xdata"
    /\ xitems = <<XDataItem("ThreeReals", <<"1.0", "4.0", "4.0">>, <<>>)>>
    /\ xpend.vals = <<"1.0">>
    /\ xpc = "returned"
    /\ xresult = ErrResult("UnexpectedEndOfInput", "")

----------------------------------------------------------------------------
(* C24: the body of the TABLES section *)

\* read_tables takes a turn of its loop: cur' holds the item it got from the
\* stream.
ReadTablesReads == pc = "tables" /\ vars' # vars

\* C24: between tables read_tables accepts 0/TABLE, which goes to the table
\* reader, after which the loop continues, and 0/ENDSEC, which it puts back
\* before it returns Ok, so that the next pair of the stream is that 0/ENDSEC;
\* any other 0 pair and any pair with a non-zero code fail with
\* UnexpectedCodePair, and the end of the stream fails with
\* UnexpectedEndOfInput.
C24_ReadTables ==
    [][/\ (ReadTablesReads /\ cur' = Pair(0, "TABLE"))
            => (pc' = "table_type" /\ pb' = <<>> /\ load_result' = load_result)
       /\ (pc = "expect_endtab" /\ vars' # vars /\ load_result' = load_result)
            => pc' = "tables"
       /\ (ReadTablesReads /\ cur' = Pair(0, "ENDSEC"))
            => /\ pc' = "expect_endsec"
               /\ pb' = <<Pair(0, "ENDSEC")>>
               /\ load_result' = load_result
       /\ (pc = "expect_endsec" /\ vars' # vars /\ pb = <<Pair(0, "ENDSEC")>>)
            => (cur' = Pair(0, "ENDSEC") /\ nread' = nread /\ pc' = "outer")
       /\ (ReadTablesReads /\ IsPair(cur')
              /\ cur' \notin {Pair(0, "TABLE"), Pair(0, "ENDSEC")})
            => (pc' = "done" /\ load_result' = ErrResult("UnexpectedCodePair", ""))
       /\ (ReadTablesReads /\ cur' = NoneItem)
            => (pc' = "done" /\ load_result' = ErrResult("UnexpectedEndOfInput", ""))
      ]_vars

\* After one table, read_tables has put 0/ENDSEC back and returned.
C24_Witness ==
    /\ sections = <<"TABLES">>
    /\ pc = "expect_endsec"
    /\ pb = <<Pair(0, "ENDSEC")>>
    /\ nread = 6
    /\ load_result = NoResult

----------------------------------------------------------------------------
(* C25: what un_escape_string passes through *)

\* A character that no escape sequence is made of: not in '@'..'_' and not a
\* space.
IsPlainAfterCaret(n) == ~(n >= 64 /\ n <= 95) /\ n # SPACE

\* C25: un_escape_string turns a '^' followed by a character n that is neither
\* in '@'..'_' nor a space into n itself, whatever n is; it drops a lone '^'
\* at the end of the input; and it returns a string without '^' unchanged.
C25_PassThrough ==
    stage = "caret_unescaped_direct" =>
      /\ (Len(val) >= 2 /\ val[1] = CARET /\ IsPlainAfterCaret(val[2]))
            => (unescaped # <<>> /\ unescaped[1] = val[2])
      /\ (val # <<>> /\ FindCaret(val) = Len(val))
            => unescaped = SubSeq(val, 1, Len(val) - 1)
      /\ (FindCaret(val) = 0) => unescaped = val

----------------------------------------------------------------------------
(* C26: the folding conserves and orders the entities *)

\* s[k] is the Seqend that swallow_seqend consumes: the one directly after the
\* run of children of an Insert with has_attributes or of a Polyline.
IsSwallowed(s, k) ==
    /\ s[k].kind = "Seqend"
    /\ \E i \in 1..(k - 1) :
         /\ IsGatherer(s[i])
         /\ k = i + RunCount(s, i, ChildKind(s[i])) + 1

\* The ids of s from its k-th entity on, in order, without the swallowed
\* Seqends.
RECURSIVE KeptFrom(_, _)
KeptFrom(s, k) ==
    IF k > Len(s) THEN <<>>
    ELSE (IF IsSwallowed(s, k) THEN <<>> ELSE <<s[k].id>>) \o KeptFrom(s, k + 1)

EntityIds(s) == [i \in 1..Len(s) |-> s[i].id]

\* The ids of a folded list in order, each parent followed by its children.
RECURSIVE Flatten(_)
Flatten(es) ==
    IF es = <<>> THEN <<>>
    ELSE <<Head(es).id>> \o EntityIds(Head(es).attributes)
           \o EntityIds(Head(es).vertices) \o Flatten(Tail(es))

\* C26: after read_entities every input entity other than a Seqend consumed
\* directly after the run of an Insert with has_attributes or of a Polyline
\* appears exactly once, as a top-level entity or as a child of the nearest
\* parent before it, and the top-level entities and the children of each
\* parent are in stream order: the result, each parent followed by its
\* children, reads as the input without the consumed Seqends.
C26_ConservesAndOrders ==
    ReadEntitiesReturned =>
        /\ Flatten(entities) = KeptFrom(yielded, 1)
        /\ \A j \in 1..Len(entities) :
             /\ entities[j].attributes # <<>> =>
                  /\ entities[j].kind = "Insert" /\ entities[j].has_attributes
                  /\ \A n \in 1..Len(entities[j].attributes) :
                       entities[j].attributes[n].kind = "Attribute"
             /\ entities[j].vertices # <<>> =>
                  /\ entities[j].kind = "Polyline"
                  /\ \A n \in 1..Len(entities[j].vertices) :
                       entities[j].vertices[n].kind = "Vertex"

\* A Polyline took two Vertices in stream order and its Seqend was consumed.
C26_Witness ==
    /\ ReadEntitiesReturned
    /\ Len(yielded) = 4
    /\ yielded[1].kind = "Polyline"
    /\ yielded[4].kind = "Seqend"
    /\ Len(entities) = 1
    /\ EntityIds(entities[1].vertices) = <<2, 3>>

----------------------------------------------------------------------------
(* C27: load stops at the first top-level 0/EOF *)

\* C27: when read_sections meets 0/EOF at the top of its loop it puts the pair
\* back and returns; load then takes that pair from the buffer and returns Ok
\* without asking the stream for another pair, so that what follows a
\* top-level 0/EOF is never read; and load never fails with "expected 0/EOF".
C27_StopsAtEof ==
    /\ [][/\ (pc = "outer" /\ vars' # vars /\ cur' = Pair(0, "EOF"))
                => (pc' = "load_eof" /\ pb' = <<Pair(0, "EOF")>>
                    /\ load_result' = load_result)
          /\ (pc = "load_eof" /\ vars' # vars /\ pb = <<Pair(0, "EOF")>>)
                => /\ pc' = "done"
                   /\ load_result' = OkResult
                   /\ cur' = Pair(0, "EOF")
                   /\ pb' = <<>>
                   /\ nread' = nread
          /\ top_eof => (nread' = nread /\ at_end' = at_end)
          /\ pc = "done" => vars' = vars]_vars
    /\ [](load_result # ErrResult("UnexpectedCodePair", "expected 0/EOF"))
    /\ []((pc = "done" /\ top_eof) => load_result = OkResult)

\* load has returned Ok on a 0/EOF that closed a file of one section, with
\* the stream not at its end.
C27_Witness ==
    /\ pc = "done"
    /\ top_eof
    /\ load_result = OkResult
    /\ Len(sections) = 1
    /\ cur = Pair(0, "EOF")
    /\ ~at_end
    /\ nread < MaxPairs

=============================================================================
